---- MODULE Spec2Model ----
(***************************************************************************)
(* clearroad-api-storages: the four jIO storage adapters (MariaDB,         *)
(* PostgreSQL, MSSQL, MongoDB).                                            *)
(*                                                                         *)
(* The module holds these state machines over one set of variables:        *)
(*   - SpecWrap: safeTransaction / safeQuery run alone against a           *)
(*     connection whose calls may fail (as the unit tests run them);       *)
(*   - Spec, SpecOk, SpecRace, SpecBoot: one adapter instance, from `new`  *)
(*     through the bootstrap queue to the data operations get / put /      *)
(*     remove, each operation a chain of queue callbacks;                  *)
(*   - SpecLww, SpecFrame, SpecAttach, SpecQuery: the same instance with   *)
(*     the callers and operations one group of properties is about         *)
(*     (object documents, one id per caller, attachments, buildQuery);     *)
(*   - SpecList, SpecCap, SpecNames, SpecMixed, SpecStamp, SpecAll,        *)
(*     SpecFail, SpecIndex: likewise for limit and projection, hasCapacity,*)
(*     allAttachments, documents next to attachments, timestamps, the      *)
(*     seven operations in sequence, failing writes, failing index         *)
(*     statements;                                                         *)
(*   - SpecConn, SpecParse, SpecPool, SpecTwin: the calls issued on one    *)
(*     connection, parseQuery on query trees, a pool of finite size, and a *)
(*     second instance constructed from the same options object.           *)
(***************************************************************************)
EXTENDS Naturals, Sequences, FiniteSets, TLC

VARIABLES
  adapter,      \* which storage class this instance is
  options,      \* the options object handed to the constructor
  inst,         \* "none", "constructed", or "threw" (constructor threw)
  error,        \* message of the error the constructor threw, "" if none
  database,     \* initDb's local `database`: the name taken out of options
  bootPc,       \* position of the bootstrap queue (initDb / initTables)
  pool,         \* this._pool (this._db for MongoDB) is set
  dbPromise,    \* this._dbPromise: "none", "pending", "fulfilled", "rejected"
  tables,       \* the two tables/collections exist at the backend
  initDbCalls,  \* number of times initDb was invoked
  schemaRuns,   \* number of times the table-creation step was executed
  documents,    \* the documents table: rows in insertion (auto-id) order
  proc,         \* per caller: the data operation in flight and its position
  reference,    \* per id: the value the executed writes leave there (a plain map)
  attachments,  \* the attachments table: rows in insertion (auto-id) order
  attached,     \* per (id, name): the blob of the last executed putAttachment
  wrap,         \* SpecWrap: the pool counters and the last wrapper run
  timestamps,   \* this._timestamps
  stamps        \* the createdAt / updatedAt of each row of documents

vars == <<adapter, options, inst, error, database, bootPc, pool, dbPromise, tables,
          initDbCalls, schemaRuns, documents, proc, reference, attachments, attached, wrap,
          timestamps, stamps>>

(***************************************************************************)
(* Bounds of the model.                                                    *)
(***************************************************************************)
MaxRows == 2
MaxRuns == 3

Adapters == {"mariadb", "postgresql", "mssql", "mongodb"}
SqlAdapters == {"mariadb", "postgresql", "mssql"}
Ids == {"a", "b"}
Procs == {"p1", "p2"}

(***************************************************************************)
(* JSON values.  A value is null, a number, a string or an object with one *)
(* numeric field ({} when k = "").  One record shape keeps values of       *)
(* different kinds comparable.                                             *)
(***************************************************************************)
JNull == [t |-> "null", n |-> 0, k |-> ""]
JNum(n) == [t |-> "number", n |-> n, k |-> ""]
JStr(s) == [t |-> "string", n |-> 0, k |-> s]
JBool(b) == [t |-> "boolean", n |-> IF b THEN 1 ELSE 0, k |-> ""]
JObj(key, n) == [t |-> "object", n |-> n, k |-> key]
JEmptyObj == [t |-> "object", n |-> 0, k |-> ""]
Undefined == [t |-> "undefined", n |-> 0, k |-> ""]

JsonValues == {JNull, JNum(0), JNum(1), JStr(""), JObj("x", 1), JObj("x", 2), JEmptyObj}

\* The values callers pass to put: one falsy, one truthy.
PutValues == {JNum(0), JObj("x", 1)}

\* JavaScript truthiness of a JSON value, as `!document` reads it.
Truthy(v) ==
  CASE v.t \in {"null", "undefined"} -> FALSE
    [] v.t = "number" -> v.n # 0
    [] v.t = "string" -> v.k # ""
    [] OTHER -> TRUE

\* JSON.stringify
stringify(v) ==
  CASE v.t = "null" -> "null"
    [] v.t = "number" -> ToString(v.n)
    [] v.t = "string" -> "\"" \o v.k \o "\""
    [] OTHER -> IF v.k = "" THEN "{}" ELSE "{\"" \o v.k \o "\":" \o ToString(v.n) \o "}"

\* JSON.parse, on the texts JSON.stringify produces.
parse(text) == CHOOSE v \in JsonValues : stringify(v) = text

(***************************************************************************)
(* The safe-execution wrappers.  A run is decided by which of the calls it *)
(* makes on the connection fail; o is that record of outcomes.  The result *)
(* lists the calls the run issued, in order, whether the returned promise  *)
(* rejected, and whether the unit of work was committed.                   *)
(***************************************************************************)
Outcomes(B) == [acquire : B, begin : B, work : B, commit : B, rollback : B]
AllOk == [acquire |-> TRUE, begin |-> TRUE, work |-> TRUE, commit |-> TRUE, rollback |-> TRUE]

\* Mutant: the unit of work is started whether or not begin succeeded.
tryCalls_ignoresBegin(o) ==
  IF ~o.work THEN <<"begin", "work">>
  ELSE <<"begin", "work", "commit">>

\* The try block: begin, the unit of work, commit, up to the first failure.
tryCalls(o) ==
  IF ~o.begin THEN <<"begin">>
  ELSE IF ~o.work THEN <<"begin", "work">>
  ELSE <<"begin", "work", "commit">>

tryOk(o) == o.begin /\ o.work /\ o.commit

\* MariaDB: the catch block rolls back; connection.end() follows the
\* try/catch statement, so it is skipped when rollback() itself rejects.
safeTransactionMariaDB(o) ==
  IF tryOk(o)
  THEN [calls |-> tryCalls(o) \o <<"release">>, rejected |-> FALSE, committed |-> TRUE]
  ELSE IF o.rollback
  THEN [calls |-> tryCalls(o) \o <<"rollback", "release">>, rejected |-> FALSE, committed |-> FALSE]
  ELSE [calls |-> tryCalls(o) \o <<"rollback">>, rejected |-> TRUE, committed |-> FALSE]

\* PostgreSQL: client.release() is in the finally block.
safeTransactionPostgreSQL(o) ==
  IF tryOk(o)
  THEN [calls |-> tryCalls(o) \o <<"release">>, rejected |-> FALSE, committed |-> TRUE]
  ELSE [calls |-> tryCalls(o) \o <<"rollback", "release">>, rejected |-> ~o.rollback, committed |-> FALSE]

\* MSSQL: the Transaction object owns its connection, nothing is released here.
safeTransactionMSSQL(o) ==
  IF tryOk(o)
  THEN [calls |-> tryCalls(o), rejected |-> FALSE, committed |-> TRUE]
  ELSE [calls |-> tryCalls(o) \o <<"rollback">>, rejected |-> ~o.rollback, committed |-> FALSE]

safeTransaction(a, o) ==
  CASE a = "mariadb" -> safeTransactionMariaDB(o)
    [] a = "postgresql" -> safeTransactionPostgreSQL(o)
    [] OTHER -> safeTransactionMSSQL(o)

\* What a read resolves to: null, or a (possibly empty) sequence of rows.
NullResult == [null |-> TRUE, rows |-> <<>>]
RowsResult(rows) == [null |-> FALSE, rows |-> rows]

\* Mutant: the catch block rethrows the read's error.
safeQueryMariaDB_rethrows(o, rows) ==
  IF o.work
  THEN [calls |-> <<"work", "release">>, rejected |-> FALSE, value |-> RowsResult(rows)]
  ELSE [calls |-> <<"work">>, rejected |-> TRUE, value |-> NullResult]

\* MariaDB: end() is awaited inside the try block after the read; a failed
\* read skips it and the function returns null.
safeQueryMariaDB(o, rows) ==
  IF o.work
  THEN [calls |-> <<"work", "release">>, rejected |-> FALSE, value |-> RowsResult(rows)]
  ELSE [calls |-> <<"work">>, rejected |-> FALSE, value |-> NullResult]

\* PostgreSQL: the result starts as {rows: [], rowCount: 0}; release() is in
\* the finally block.
safeQueryPostgreSQL(o, rows) ==
  [calls |-> <<"work", "release">>, rejected |-> FALSE,
   value |-> IF o.work THEN RowsResult(rows) ELSE RowsResult(<<>>)]

safeQuery(a, o, rows) ==
  IF a = "mariadb" THEN safeQueryMariaDB(o, rows) ELSE safeQueryPostgreSQL(o, rows)

Count(s, x) == Cardinality({i \in DOMAIN s : s[i] = x})
Index(s, x) == IF Count(s, x) = 0 THEN 0 ELSE CHOOSE i \in DOMAIN s : s[i] = x /\ \A j \in DOMAIN s : s[j] = x => i <= j

(***************************************************************************)
(* SpecWrap: the wrappers run alone, one run after the other, each on a    *)
(* connection taken from the pool.  Releasing a pooled connection          *)
(* (connection.end(), client.release()) hands it back and does not fail;   *)
(* every other call on the connection may.                                 *)
(***************************************************************************)
Row(id, value) == [id |-> id, value |-> value]

\* What the read handed to safeQuery may resolve to.
ReadResults == {<<>>, <<Row("a", stringify(JNum(0)))>>, <<Row("a", stringify(JObj("x", 1)))>>}

NoRun ==
  [kind |-> "none", o |-> AllOk, read |-> <<>>, calls |-> <<>>,
   rejected |-> FALSE, committed |-> FALSE, value |-> NullResult]

\* A Blob: its MIME type and its content.
Blobs == [type : {"text/plain"}, data : {"a", "hi"}]
NoBlob == [type |-> "", data |-> ""]
Names == {"n1", "n2"}

\* The query tree jIO.QueryFactory.create hands to parseQuery: a predicate
\* (key, operator, value) or a group (operator, key, query_list).  operator ""
\* and key "" stand for a field that is not set.
NoQuery == [type |-> "none", key |-> "", operator |-> "", value |-> 0, query_list |-> <<>>]
SimpleQuery(key, operator, value) ==
  [type |-> "simple", key |-> key, operator |-> operator, value |-> value,
   query_list |-> <<>>]
ComplexQuery(operator, key, list) ==
  [type |-> "complex", key |-> key, operator |-> operator, value |-> 0,
   query_list |-> list]

\* buildQuery's options: query (NoQuery for ''), sort_on, limit and
\* select_list (<<>> when the option is not given), include_docs.
NoQueryOptions ==
  [query |-> NoQuery, sort_on |-> <<>>, limit |-> <<>>,
   include_docs |-> FALSE, select_list |-> <<>>]

\* State of the adapter instance and of the data operations before `new`.
NoOptions == [address |-> Undefined, database |-> Undefined]
Idle == [pc |-> "idle", op |-> "none", id |-> "a", val |-> JNull, doc |-> JNull,
         status |-> "none", res |-> JNull, name |-> "", blob |-> NoBlob,
         opts |-> NoQueryOptions, fetched |-> <<>>, list |-> <<>>]
Absent == [t |-> "absent", n |-> 0, k |-> ""]

InstanceInit ==
  /\ options = NoOptions
  /\ inst = "none"
  /\ error = ""
  /\ database = Undefined
  /\ bootPc = "none"
  /\ pool = FALSE
  /\ dbPromise = "none"
  /\ tables = FALSE
  /\ initDbCalls = 0
  /\ schemaRuns = 0
  /\ documents = <<>>
  /\ proc = [p \in Procs |-> Idle]
  /\ reference = [i \in Ids |-> Absent]
  /\ attachments = <<>>
  /\ attached = [i \in Ids, n \in Names |-> NoBlob]
  /\ timestamps = TRUE
  /\ stamps = <<>>

instVars == <<options, inst, error, database, bootPc, pool, dbPromise, tables,
              initDbCalls, schemaRuns, documents, proc, reference, attachments, attached,
              timestamps, stamps>>

InitWrap ==
  /\ adapter \in SqlAdapters
  /\ wrap = [acquired |-> 0, released |-> 0, run |-> NoRun]
  /\ InstanceInit

\* await safeTransaction(connection, transactions)
RunSafeTransaction(B) ==
  /\ wrap.acquired < MaxRuns
  /\ \E o \in Outcomes(B) :
       /\ o.acquire
       /\ LET r == safeTransaction(adapter, o)
          IN wrap' = [acquired |-> wrap.acquired + 1,
                      released |-> wrap.released + Count(r.calls, "release"),
                      run |-> [kind |-> "transaction", o |-> o, read |-> <<>>,
                               calls |-> r.calls, rejected |-> r.rejected,
                               committed |-> r.committed, value |-> NullResult]]
  /\ UNCHANGED <<adapter, timestamps, instVars>>

\* await safeQuery(connection, query); MSSQL has no safeQuery.
RunSafeQuery(B) ==
  /\ wrap.acquired < MaxRuns
  /\ adapter \in {"mariadb", "postgresql"}
  /\ \E o \in Outcomes(B), rows \in ReadResults :
       /\ o.acquire /\ o.begin /\ o.commit /\ o.rollback
       /\ LET r == safeQuery(adapter, o, rows)
          IN wrap' = [acquired |-> wrap.acquired + 1,
                      released |-> wrap.released + Count(r.calls, "release"),
                      run |-> [kind |-> "query", o |-> o, read |-> rows,
                               calls |-> r.calls, rejected |-> r.rejected,
                               committed |-> FALSE, value |-> r.value]]
  /\ UNCHANGED <<adapter, timestamps, instVars>>

NextWrap == RunSafeTransaction(BOOLEAN) \/ RunSafeQuery(BOOLEAN)

SpecWrap == InitWrap /\ [][NextWrap]_vars

(***************************************************************************)
(* The adapter instance: constructor and bootstrap queue.                  *)
(***************************************************************************)
\* The options callers pass: a field may be missing, empty, a string or not
\* a string.
OptionsIn ==
  [address : {Undefined, JStr(""), JNum(5), JStr("db.host")},
   database : {Undefined, JStr(""), JNum(5), JStr("app")}]

\* typeof value === 'string'
isString(value) == value.t = "string"

\* The option holding the backend's address.
addressField(a) ==
  CASE a = "mssql" -> "server"
    [] a = "mongodb" -> "url"
    [] OTHER -> "host"

\* Mutant: the database option is not checked.
requireOptions_noDatabase(a, opts) ==
  IF (a # "postgresql" /\ ~isString(opts.address)) \/ ~Truthy(opts.address)
  THEN "\"" \o addressField(a) \o "\" must be a non-empty string"
  ELSE ""

\* The message the constructor throws, "" when the options pass.  PostgreSQL
\* tests `!options.host` only, the others `typeof ... !== 'string' || !...`.
requireOptions(a, opts) ==
  IF (a # "postgresql" /\ ~isString(opts.address)) \/ ~Truthy(opts.address)
  THEN "\"" \o addressField(a) \o "\" must be a non-empty string"
  ELSE IF ~isString(opts.database) \/ ~Truthy(opts.database)
  THEN "\"database\" must be a non-empty string"
  ELSE ""

\* What initDb leaves in options.database while the administrative
\* connection is in use.
adminDatabase(a, name) ==
  CASE a = "postgresql" -> JStr("postgres")
    [] a = "mongodb" -> name
    [] OTHER -> Undefined

bootVars == <<database, bootPc, pool, dbPromise, tables, initDbCalls, schemaRuns>>
dataVars == <<documents, stamps, proc, reference, attachments, attached>>

\* this._dbPromise = this.initDb(options): the synchronous part of initDb.
initDb(opts) ==
  /\ database' = opts.database
  /\ options' = [opts EXCEPT !.database = adminDatabase(adapter, opts.database)]
  /\ initDbCalls' = initDbCalls + 1
  /\ dbPromise' = "pending"
  /\ bootPc' = "connectAdmin"

\* new XStorage(options)
\* new Storage(options), T the values options.timestamps may have:
\* if (options.timestamps === false) this._timestamps = false
Constructor(T) ==
  /\ inst = "none"
  /\ \E opts \in OptionsIn :
       IF requireOptions(adapter, opts) # ""
       THEN /\ inst' = "threw"
            /\ error' = requireOptions(adapter, opts)
            /\ options' = opts
            /\ UNCHANGED <<bootVars, timestamps>>
       ELSE /\ inst' = "constructed"
            /\ \E t \in T : timestamps' = IF t = JBool(FALSE) THEN FALSE ELSE timestamps
            /\ initDb(opts)
            /\ UNCHANGED <<error, pool, tables, schemaRuns>>
  /\ UNCHANGED <<adapter, dataVars, wrap>>

Construct == Constructor({Undefined})

\* The bootstrap queue rejects: this._dbPromise is rejected for good.
BootFails ==
  /\ bootPc' = "failed"
  /\ dbPromise' = "rejected"

\* options.database = database; return this.initTables(options)
initTables ==
  /\ options' = [options EXCEPT !.database = database]
  /\ bootPc' = "connectPool1"

\* The administrative connection is opened (mariadb.createConnection,
\* client.connect, pool.connect, MongoClient.connect).  MSSQL catches a
\* failure and goes on to close the pool; MongoDB's next callback sets
\* this._db and the collections before it creates the indexes.
ConnectAdmin(B) ==
  /\ bootPc = "connectAdmin"
  /\ \E ok \in B :
       CASE adapter = "mongodb" ->
              IF ok
              THEN /\ pool' = TRUE
                   /\ tables' = TRUE
                   /\ bootPc' = "createIndexes"
                   /\ UNCHANGED dbPromise
              ELSE BootFails /\ UNCHANGED <<pool, tables>>
         [] adapter = "mssql" ->
              /\ bootPc' = IF ok THEN "createDatabase" ELSE "closeAdmin"
              /\ UNCHANGED <<pool, tables, dbPromise>>
         [] OTHER ->
              /\ IF ok THEN bootPc' = "createDatabase" /\ UNCHANGED dbPromise ELSE BootFails
              /\ UNCHANGED <<pool, tables>>
  /\ UNCHANGED <<adapter, timestamps, options, inst, error, database, initDbCalls, schemaRuns, dataVars, wrap>>

\* CREATE DATABASE.  PostgreSQL and MSSQL ignore its failure; MariaDB runs
\* it under safeTransaction, which also ends the connection.
CreateDatabase(B) ==
  /\ bootPc = "createDatabase"
  /\ \E o \in Outcomes(B) :
       /\ o.acquire
       /\ IF adapter = "mariadb"
          THEN IF safeTransactionMariaDB(o).rejected
               THEN BootFails /\ UNCHANGED options
               ELSE initTables /\ UNCHANGED dbPromise
          ELSE /\ o.begin /\ o.commit /\ o.rollback
               /\ bootPc' = "closeAdmin"
               /\ UNCHANGED <<options, dbPromise>>
  /\ UNCHANGED <<adapter, timestamps, inst, error, database, pool, tables, initDbCalls, schemaRuns, dataVars, wrap>>

\* client.end() (PostgreSQL), pool.close() in the finally block (MSSQL).
CloseAdmin(B) ==
  /\ bootPc = "closeAdmin"
  /\ \E ok \in B :
       IF ok THEN initTables /\ UNCHANGED dbPromise
       ELSE BootFails /\ UNCHANGED options
  /\ UNCHANGED <<adapter, timestamps, inst, error, database, pool, tables, initDbCalls, schemaRuns, dataVars, wrap>>

\* pool.connect() / pool.getConnection() of initTables.  MSSQL connects once
\* and creates tables and indexes on that pool.
ConnectPool(B) ==
  /\ bootPc \in {"connectPool1", "connectPool2"}
  /\ \E ok \in B :
       IF ok
       THEN /\ bootPc' = IF bootPc = "connectPool1" THEN "createTables" ELSE "createIndexes"
            /\ UNCHANGED dbPromise
       ELSE BootFails
  /\ UNCHANGED <<adapter, timestamps, options, inst, error, database, pool, tables, initDbCalls, schemaRuns, dataVars, wrap>>

\* The two CREATE TABLE statements: under safeTransaction (MariaDB,
\* PostgreSQL), or each with its error caught (MSSQL).
CreateTables(B) ==
  /\ bootPc = "createTables"
  /\ schemaRuns' = schemaRuns + 1
  /\ \E o \in Outcomes(B) :
       /\ o.acquire
       /\ IF adapter = "mssql"
          THEN /\ o.begin /\ o.commit /\ o.rollback
               /\ tables' = o.work
               /\ bootPc' = "createIndexes"
               /\ UNCHANGED dbPromise
          ELSE LET r == safeTransaction(adapter, o)
               IN /\ tables' = r.committed
                  /\ IF r.rejected THEN BootFails
                     ELSE bootPc' = "connectPool2" /\ UNCHANGED dbPromise
  /\ UNCHANGED <<adapter, timestamps, options, inst, error, database, pool, initDbCalls, dataVars, wrap>>

\* The CREATE INDEX statements, O the outcomes their calls may have (work:
\* the index statements themselves).  MariaDB, PostgreSQL: each statement
\* has its own .catch(() => {}), so the unit of work never fails, but the
\* transaction around it may.  MSSQL: each is caught.  MongoDB: Promise.all
\* of the three createIndex calls, no catch.
CreateIndexesOn(O) ==
  /\ bootPc = "createIndexes"
  /\ \E o \in O :
       /\ o.acquire
       /\ CASE adapter = "mssql" ->
                 /\ o.begin /\ o.commit /\ o.rollback
                 /\ bootPc' = "publish"
                 /\ UNCHANGED dbPromise
            [] adapter = "mongodb" ->
                 /\ o.begin /\ o.commit /\ o.rollback
                 /\ IF o.work THEN bootPc' = "publish" /\ UNCHANGED dbPromise ELSE BootFails
            [] OTHER ->
                 /\ IF safeTransaction(adapter, [o EXCEPT !.work = TRUE]).rejected THEN BootFails
                    ELSE bootPc' = "publish" /\ UNCHANGED dbPromise
  /\ UNCHANGED <<adapter, timestamps, options, inst, error, database, pool, tables, initDbCalls, schemaRuns, dataVars, wrap>>

CreateIndexes(B) == CreateIndexesOn(Outcomes(B))

\* .push(() => this._pool = pool) / .push(() => this._db): the last callback
\* of the bootstrap queue; this._dbPromise is fulfilled with its value.
Publish ==
  /\ bootPc = "publish"
  /\ pool' = TRUE
  /\ dbPromise' = "fulfilled"
  /\ bootPc' = "ready"
  /\ UNCHANGED <<adapter, timestamps, options, inst, error, database, tables, initDbCalls, schemaRuns, dataVars, wrap>>

(***************************************************************************)
(* The documents table and the statements the adapters issue on it.  A     *)
(* SELECT without ORDER BY (and findOne / updateOne / deleteOne without a  *)
(* sort) may meet the matching rows in any order.                          *)
(***************************************************************************)
Matching(id) == SelectSeq(documents, LAMBDA r : r.id = id)
MatchIdx(id) == {k \in DOMAIN documents : documents[k].id = id}
Without(s, k) == SubSeq(s, 1, k - 1) \o SubSeq(s, k + 1, Len(s))
ResultOrders(m) == IF m = <<>> THEN {<<>>} ELSE {<<m[k]>> \o Without(m, k) : k \in DOMAIN m}

\* The stored form of a value: JSON.stringify(data) in the SQL adapters, the
\* value itself in MongoDB.
cell(a, val) == IF a = "mongodb" THEN val ELSE stringify(val)

\* resultAsJson(doc) / document[valueKey]: the value of a stored row.
\* PostgreSQL's driver has parsed the jsonb column already.
resultAsJson(a, row) ==
  CASE a = "mongodb" -> row.value
    [] a = "postgresql" -> parse(row.value)
    [] OTHER -> parse(IF row.value = "" THEN "{}" ELSE row.value)

\* INSERT INTO documents / insertOne
insertRow(docs, id, c) == Append(docs, Row(id, c))

\* Mutant: the UPDATE has no WHERE clause on _id.
updateRows_noWhere(a, docs, id, c, k) ==
  [j \in DOMAIN docs |-> Row(docs[j].id, c)]

\* UPDATE documents SET value WHERE _id = id: every matching row.
\* updateOne: the one matching document k (0 when none matches).
updateRows(a, docs, id, c, k) ==
  [j \in DOMAIN docs |->
     IF docs[j].id = id /\ (a # "mongodb" \/ j = k) THEN Row(id, c) ELSE docs[j]]

\* DELETE FROM documents WHERE _id = id: every matching row.
\* deleteOne: the one matching document k.
deleteRows(a, docs, id, k) ==
  IF a = "mongodb"
  THEN IF k = 0 THEN docs ELSE Without(docs, k)
  ELSE SelectSeq(docs, LAMBDA r : r.id # id)

\* The elements of seq at the indexes of S, in order.
SelectIdx(seq, S) ==
  LET F[i \in 0..Len(seq)] ==
        IF i = 0 THEN <<>> ELSE IF i \in S THEN Append(F[i - 1], seq[i]) ELSE F[i - 1]
  IN F[Len(seq)]

\* createdAt and updatedAt of a row: "absent" (no such column or field),
\* "null", or the server's time at the statement that set it, "insert" for
\* an INSERT / insertOne and "update" for an UPDATE / updateOne.
NoStamps == [createdAt |-> "absent", updatedAt |-> "absent"]

\* The insert of put.  MongoDB sets createdAt = now(); PostgreSQL and MSSQL
\* name _id and value only and the column default (Now(), GETDATE()) fills
\* createdAt; MariaDB writes (CURRENT_TIMESTAMP, NULL).  The MariaDB
\* columns are declared `createdAt TIMESTAMP, updatedAt TIMESTAMP`: on a
\* server that gives TIMESTAMP columns implicit defaults (auto) the NULL
\* written to updatedAt is stored as the current time.
insertStamps(a, ts, auto) ==
  IF ~ts THEN NoStamps
  ELSE [createdAt |-> "insert",
        updatedAt |-> CASE a = "mongodb" -> "absent"
                        [] a = "mariadb" /\ auto -> "insert"
                        [] OTHER -> "null"]

\* The update of put: SET value, updatedAt = now.  On a MariaDB server with
\* implicit TIMESTAMP defaults the first TIMESTAMP column of the table,
\* createdAt, is ON UPDATE CURRENT_TIMESTAMP.
updateStamps(a, ts, auto, s) ==
  IF ~ts THEN s
  ELSE [createdAt |-> IF a = "mariadb" /\ auto THEN "update" ELSE s.createdAt,
        updatedAt |-> "update"]

\* Mutant: removing a document deletes the attachments stored under its id.
attachmentsAfterRemove_cascade(rows, id) == SelectSeq(rows, LAMBDA r : r.id # id)

\* remove's one statement names the documents table (collection) only: the
\* attachments are afterwards what they were.
attachmentsAfterRemove(rows, id) == rows

(***************************************************************************)
(* The data operations.  o tells which backend calls of the step fail.     *)
(***************************************************************************)
Settled(rejected, value) == [rejected |-> rejected, value |-> value]

\* executeQuery: take a connection, then run the read under safeQuery
\* (MariaDB, PostgreSQL) or directly on a request of the pool (MSSQL).
executeQuery(a, o, rows) ==
  CASE a = "mssql" ->
         IF o.work THEN Settled(FALSE, RowsResult(rows)) ELSE Settled(TRUE, NullResult)
    [] OTHER ->
         IF ~o.acquire THEN Settled(TRUE, NullResult)
         ELSE Settled(safeQuery(a, o, rows).rejected, safeQuery(a, o, rows).value)

\* Mutant: an empty result is run through resultAsJson's fallback and
\* yields {} instead of null.
get_emptyObject(a, o, rows) ==
  IF a = "mongodb"
  THEN IF ~o.work THEN Settled(TRUE, JNull)
       ELSE Settled(FALSE, IF rows # <<>> THEN resultAsJson(a, rows[1]) ELSE JEmptyObj)
  ELSE LET q == executeQuery(a, o, rows)
       IN IF q.rejected THEN Settled(TRUE, JNull)
          ELSE Settled(FALSE, IF ~q.value.null /\ Len(q.value.rows) > 0
                              THEN resultAsJson(a, q.value.rows[1]) ELSE JEmptyObj)

\* get(id): the value of the first row returned, null when there is none.
get(a, o, rows) ==
  IF a = "mongodb"
  THEN IF ~o.work THEN Settled(TRUE, JNull)
       ELSE Settled(FALSE, IF rows # <<>> THEN resultAsJson(a, rows[1]) ELSE JNull)
  ELSE LET q == executeQuery(a, o, rows)
       IN IF q.rejected THEN Settled(TRUE, JNull)
          ELSE Settled(FALSE, IF ~q.value.null /\ Len(q.value.rows) > 0
                              THEN resultAsJson(a, q.value.rows[1]) ELSE JNull)

\* executeTransaction (PostgreSQL, MSSQL): the statement under
\* safeTransaction.  applied: the statement's effect is in the table.
Written(rejected, applied) == [rejected |-> rejected, applied |-> applied]

executeTransaction(a, o) ==
  IF a = "postgresql" /\ ~o.acquire THEN Written(TRUE, FALSE)
  ELSE Written(safeTransaction(a, o).rejected, safeTransaction(a, o).committed)

\* How put and remove run their statement: executeTransaction (PostgreSQL,
\* MSSQL), executeQuery (MariaDB), the collection's method (MongoDB).
write(a, o) ==
  CASE a = "mongodb" -> Written(~o.work, o.work)
    [] a = "mariadb" -> Written(executeQuery(a, o, <<>>).rejected, o.acquire /\ o.work)
    [] OTHER -> executeTransaction(a, o)

\* The backend calls a read and a write make, per adapter; the outcome of a
\* call that is not made is left TRUE.
readCalls(a) == IF a \in {"mongodb", "mssql"} THEN {"work"} ELSE {"acquire", "work"}
writeCalls(a) ==
  CASE a = "mongodb" -> {"work"}
    [] a = "mariadb" -> {"acquire", "work"}
    [] a = "mssql" -> {"begin", "work", "commit", "rollback"}
    [] OTHER -> {"acquire", "begin", "work", "commit", "rollback"}
OutcomesOf(calls, B) == {o \in Outcomes(B) : \A f \in DOMAIN o : f \notin calls => o[f]}

\* if (!document) insert, else update
putPath(document) == IF ~Truthy(document) THEN "insert" ELSE "update"

AttachmentOps == {"getAttachment", "putAttachment", "removeAttachment"}
FirstPc(op) ==
  CASE op = "remove" -> "write"
    [] op \in AttachmentOps -> "attachment"
    [] op = "buildQuery" -> "query"
    [] op = "allAttachments" -> "names"
    [] OTHER -> "read"
InFlight(q) == proc[q].pc \notin {"idle", "done"}

Done(p, status, res) ==
  [pc |-> "done", op |-> proc[p].op, id |-> proc[p].id, val |-> JNull, doc |-> JNull,
   status |-> status, res |-> res, name |-> proc[p].name, blob |-> NoBlob,
   opts |-> proc[p].opts, fetched |-> <<>>, list |-> <<>>]

\* Mutant: without a cached handle the accessor runs initDb again instead of
\* returning the promise of the run the constructor started.
client_reinit(p, op, id, val) ==
  /\ proc' = [proc EXCEPT ![p] = [Idle EXCEPT !.pc = IF pool THEN FirstPc(op) ELSE "await",
                                               !.op = op, !.id = id, !.val = val]]
  /\ IF pool
     THEN UNCHANGED <<options, inst, error, bootVars>>
     ELSE /\ initDb([options EXCEPT !.database = database])
          /\ UNCHANGED <<inst, error, pool, tables, schemaRuns>>

\* client() / connection() / pool() / db(): the cached handle when it is set,
\* else the bootstrap promise.
client(p, op, id, val) ==
  /\ proc' = [proc EXCEPT ![p] = [Idle EXCEPT !.pc = IF pool THEN FirstPc(op) ELSE "await",
                                               !.op = op, !.id = id, !.val = val]]
  /\ UNCHANGED <<options, inst, error, bootVars>>

\* storage.get(id), storage.put(id, val), storage.remove(id) is invoked.
Call(p, Ops) ==
  /\ inst = "constructed"
  /\ ~InFlight(p)
  /\ \/ \E id \in Ids : "get" \in Ops /\ client(p, "get", id, JNull)
     \/ \E id \in Ids : "remove" \in Ops /\ client(p, "remove", id, JNull)
     \/ \E id \in Ids, val \in PutValues : "put" \in Ops /\ client(p, "put", id, val)
  /\ UNCHANGED <<adapter, timestamps, documents, stamps, reference, attachments, attached, wrap>>

\* The bootstrap promise the operation waits on settles.
Await(p) ==
  /\ proc[p].pc = "await"
  /\ dbPromise \in {"fulfilled", "rejected"}
  /\ proc' = [proc EXCEPT ![p] =
       IF dbPromise = "fulfilled" THEN [proc[p] EXCEPT !.pc = FirstPc(proc[p].op)]
       ELSE Done(p, "rejected", JStr("bootstrap"))]
  /\ UNCHANGED <<adapter, timestamps, options, inst, error, bootVars, documents, stamps, reference, attachments, attached, wrap>>

\* The SELECT / findOne of get(id), for get itself and as put's first step.
Read(p, B) ==
  /\ proc[p].pc = "read"
  /\ \E o \in OutcomesOf(readCalls(adapter), B), rows \in ResultOrders(Matching(proc[p].id)) :
       /\ o.work => tables
       /\ LET g == get(adapter, o, rows)
          IN proc' = [proc EXCEPT ![p] =
               IF g.rejected THEN Done(p, "rejected", JStr("backend"))
               ELSE IF proc[p].op = "get" THEN Done(p, "resolved", g.value)
               ELSE [proc[p] EXCEPT !.pc = "write", !.doc = g.value]]
  /\ UNCHANGED <<adapter, timestamps, options, inst, error, bootVars, documents, stamps, reference, attachments, attached, wrap>>

\* The INSERT / UPDATE of put, the DELETE of remove; both resolve to the id.
Write(p, B) ==
  /\ proc[p].pc = "write"
  /\ \E o \in OutcomesOf(writeCalls(adapter), B), k \in MatchIdx(proc[p].id) \cup {0},
        auto \in BOOLEAN :
       /\ o.work => tables
       /\ k = 0 => MatchIdx(proc[p].id) = {}
       /\ auto => (adapter = "mariadb" /\ timestamps /\ proc[p].op = "put" /\ write(adapter, o).applied)
       /\ LET w == write(adapter, o)
              id == proc[p].id
              c == cell(adapter, proc[p].val)
              insert == proc[p].op = "put" /\ putPath(proc[p].doc) = "insert"
              hit == {j \in DOMAIN documents :
                        documents[j].id = id /\ (adapter # "mongodb" \/ j = k)}
          IN /\ (w.applied /\ insert) => Len(documents) < MaxRows
             /\ stamps' =
                  IF ~w.applied THEN stamps
                  ELSE IF proc[p].op = "remove" THEN SelectIdx(stamps, DOMAIN stamps \ hit)
                  ELSE IF insert THEN Append(stamps, insertStamps(adapter, timestamps, auto))
                  ELSE [j \in DOMAIN stamps |->
                          IF j \in hit THEN updateStamps(adapter, timestamps, auto, stamps[j])
                          ELSE stamps[j]]
             /\ documents' =
                  IF ~w.applied THEN documents
                  ELSE IF proc[p].op = "remove" THEN deleteRows(adapter, documents, id, k)
                  ELSE IF insert THEN insertRow(documents, id, c)
                  ELSE updateRows(adapter, documents, id, c, k)
             /\ reference' =
                  IF ~w.applied THEN reference
                  ELSE [reference EXCEPT ![id] =
                          IF proc[p].op = "remove" THEN Absent ELSE proc[p].val]
             /\ attachments' =
                  IF w.applied /\ proc[p].op = "remove"
                  THEN attachmentsAfterRemove(attachments, id) ELSE attachments
             /\ proc' = [proc EXCEPT ![p] =
                  IF w.rejected THEN Done(p, "rejected", JStr("backend"))
                  ELSE Done(p, "resolved", JStr(id))]
  /\ UNCHANGED <<adapter, timestamps, options, inst, error, bootVars, attached, wrap>>

(***************************************************************************)
(* The specifications.  P: the callers that may have an operation in       *)
(* flight; Ops: the operations they invoke; B: the outcomes a backend call *)
(* may have.                                                               *)
(*   Spec      one caller, backend calls may fail                          *)
(*   SpecOk    one caller, no backend call fails                           *)
(*   SpecRace  two callers whose operations overlap, no backend call fails *)
(*   SpecBoot  two callers invoking get and remove from construction on,   *)
(*             backend calls may fail                                      *)
(***************************************************************************)
Init ==
  /\ adapter \in Adapters
  /\ wrap = [acquired |-> 0, released |-> 0, run |-> NoRun]
  /\ InstanceInit

Bootstrap(B) ==
  \/ ConnectAdmin(B)
  \/ CreateDatabase(B)
  \/ CloseAdmin(B)
  \/ ConnectPool(B)
  \/ CreateTables(B)
  \/ CreateIndexes(B)
  \/ Publish

AllOps == {"get", "put", "remove"}

Operate(P, Ops, B) == \E p \in P : Call(p, Ops) \/ Await(p) \/ Read(p, B) \/ Write(p, B)

Next == Construct \/ Bootstrap(BOOLEAN) \/ Operate({"p1"}, AllOps, BOOLEAN)
NextOk == Construct \/ Bootstrap({TRUE}) \/ Operate({"p1"}, AllOps, {TRUE})
NextRace == Construct \/ Bootstrap({TRUE}) \/ Operate(Procs, AllOps, {TRUE})
NextBoot == Construct \/ Bootstrap(BOOLEAN) \/ Operate(Procs, {"get", "remove"}, BOOLEAN)

Spec == Init /\ [][Next]_vars
SpecOk == Init /\ [][NextOk]_vars
SpecRace == Init /\ [][NextRace]_vars
SpecBoot == Init /\ [][NextBoot]_vars

(***************************************************************************)
(* Properties.                                                             *)
(***************************************************************************)
RowsOf(id) == Cardinality(MatchIdx(id))
GetDone(p) == proc[p].pc = "done" /\ proc[p].op = "get" /\ proc[p].status = "resolved"

\* C1: after put(i, v) has resolved, with no other write on i since, get(i)
\* resolves to v.  (reference[i] is v exactly when put(i, v) was the last
\* write executed on i; stated for one caller and no backend failure.)
RoundTrip ==
  \A p \in Procs :
    (GetDone(p) /\ reference[proc[p].id] \in PutValues) => proc[p].res = reference[proc[p].id]

\* C2: a put issued while a row with its id is stored takes the update path
\* and one issued while none is stored takes the insert path; so with one
\* caller at a time each id has at most one row and get returns the value of
\* the latest put.
PutPathMatchesStore ==
  /\ \A p \in Procs :
       (proc[p].pc = "write" /\ proc[p].op = "put") =>
         (putPath(proc[p].doc) = "update" <=> RowsOf(proc[p].id) > 0)
  /\ \A i \in Ids : RowsOf(i) <= 1
  /\ \A p \in Procs :
       (GetDone(p) /\ reference[proc[p].id] # Absent) => proc[p].res = reference[proc[p].id]

\* C3: in every reachable state, overlapping puts included, the documents
\* table holds at most one row per id.  (Stated for the ids whose stored
\* values are all truthy, where a put that reads after the row was written
\* sees it: what is left is the interleaving of two puts.)
OneRowPerId ==
  \A i \in Ids :
    (\A k \in MatchIdx(i) : Truthy(resultAsJson(adapter, documents[k]))) => RowsOf(i) <= 1

\* C4: every run of safeTransaction and safeQuery that is handed a
\* connection (MariaDB, PostgreSQL) releases it exactly once, whichever of
\* its calls fail.
ReleasedExactlyOnce ==
  (wrap.run.kind # "none" /\ adapter \in {"mariadb", "postgresql"}) =>
    Count(wrap.run.calls, "release") = 1

\* C5: in every run of safeTransaction the unit of work starts only after
\* begin has succeeded; when the unit of work and commit succeed no rollback
\* is issued; when the unit of work fails rollback is issued and commit is
\* not.
TransactionDiscipline ==
  wrap.run.kind = "transaction" =>
    LET c == wrap.run.calls
        o == wrap.run.o
    IN /\ Count(c, "work") > 0 =>
            (o.begin /\ Count(c, "begin") = 1 /\ Index(c, "begin") < Index(c, "work"))
       /\ (o.begin /\ o.work /\ o.commit) => Count(c, "rollback") = 0
       /\ (o.begin /\ ~o.work) => (Count(c, "rollback") = 1 /\ Count(c, "commit") = 0)

\* A run whose unit of work failed after a successful begin and was rolled back.
WitnessRolledBack ==
  /\ wrap.run.kind = "transaction"
  /\ wrap.run.o.begin /\ ~wrap.run.o.work
  /\ wrap.run.calls = <<"begin", "work", "rollback">>

\* C6: safeTransaction never rejects, whichever of begin, the unit of work,
\* commit and rollback fails.
TransactionNeverRejects == wrap.run.kind = "transaction" => ~wrap.run.rejected

BackendErrorsAbsorbed ==
  \A p \in Procs : proc[p].status = "rejected" => proc[p].res = JStr("bootstrap")

\* C9: initDb runs once per instance and the tables are created once,
\* however many operations are invoked while the bootstrap is in flight.
BootstrapOnce ==
  /\ initDbCalls <= 1
  /\ schemaRuns <= 1
  /\ inst = "constructed" => initDbCalls = 1
  /\ inst # "constructed" => (initDbCalls = 0 /\ dbPromise = "none")

\* Two operations waiting on the bootstrap promise while the tables are
\* about to be created.
WitnessTwoWaiting ==
  /\ \A p \in Procs : proc[p].pc = "await"
  /\ bootPc = "createTables"
  /\ dbPromise = "pending"

\* C10: no data operation issues its statement before the bootstrap promise
\* is fulfilled.
NoStatementBeforeReady ==
  [][\A p \in Procs :
       (proc[p].pc \in {"read", "write"} /\ proc'[p] # proc[p]) => dbPromise = "fulfilled"]_vars

\* C11: once the bootstrap has failed the instance never becomes ready: no
\* data operation reaches the backend, and every operation that has settled
\* was rejected with the bootstrap error.
FailedBootstrapIsFatal ==
  dbPromise = "rejected" =>
    \A p \in Procs :
         /\ proc[p].pc \notin {"read", "write"}
         /\ proc[p].pc = "done" =>
              (proc[p].status = "rejected" /\ proc[p].res = JStr("bootstrap"))

\* C12: get(i) on an id no put was ever executed for resolves to null.
\* (Stated for every id that has no stored row, which covers the ids never
\* written; one caller, no backend failure.)
GetOfUnwrittenIsNull ==
  \A p \in Procs :
    (proc[p].pc = "done" /\ proc[p].op = "get" /\ RowsOf(proc[p].id) = 0) =>
      (proc[p].status = "resolved" /\ proc[p].res = JNull)

\* get("b") has resolved to null while "a" holds a document and "b" was
\* never written.
WitnessGetUnwritten ==
  /\ GetDone("p1") /\ proc["p1"].id = "b" /\ proc["p1"].res = JNull
  /\ reference["b"] = Absent /\ RowsOf("b") = 0
  /\ RowsOf("a") > 0

\* C13: remove(i) resolves to i whether or not a document with id i is
\* stored, and once it has resolved no row with id i is left (so the get
\* that follows resolves to null and a second remove changes nothing).
RemoveDeletesEveryRow ==
  \A p \in Procs :
    (proc[p].pc = "done" /\ proc[p].op = "remove") =>
      /\ proc[p].status = "resolved"
      /\ proc[p].res = JStr(proc[p].id)
      /\ RowsOf(proc[p].id) = 0

(***************************************************************************)
(* SpecLww: two callers whose operations overlap, putting documents that   *)
(* are objects (the documents jIO stores) and getting them; no backend     *)
(* call fails.                                                             *)
(***************************************************************************)
ObjectValues == {JObj("x", 1), JObj("x", 2)}

\* storage.put(id, document) is invoked with an object.
CallPut(p, Vals) ==
  /\ inst = "constructed"
  /\ ~InFlight(p)
  /\ \E id \in Ids, val \in Vals : client(p, "put", id, val)
  /\ UNCHANGED <<adapter, timestamps, documents, stamps, reference, attachments, attached, wrap>>

NextLww ==
  \/ Construct
  \/ Bootstrap({TRUE})
  \/ \E p \in Procs :
       CallPut(p, ObjectValues) \/ Call(p, {"get"}) \/ Await(p) \/ Read(p, {TRUE}) \/ Write(p, {TRUE})

SpecLww == Init /\ [][NextLww]_vars

\* C14: a get that runs when no other operation is in flight returns the
\* value of the put whose write was executed last on its id, also when the
\* puts before it overlapped.
LastWriterWins ==
  [][\A p \in Procs :
       ( /\ proc[p].pc = "read" /\ proc[p].op = "get"
         /\ proc'[p].pc = "done"
         /\ \A q \in Procs \ {p} : ~InFlight(q)
         /\ reference[proc[p].id] # Absent )
       => proc'[p].res = reference[proc[p].id]]_vars

(***************************************************************************)
(* SpecFrame: two callers whose operations overlap, each working on an id  *)
(* of its own; no backend call fails.                                      *)
(***************************************************************************)
OwnId(p) == IF p = "p1" THEN "a" ELSE "b"

\* storage.get / put / remove is invoked on the caller's own id.
CallOwn(p) ==
  /\ inst = "constructed"
  /\ ~InFlight(p)
  /\ \/ client(p, "get", OwnId(p), JNull)
     \/ client(p, "remove", OwnId(p), JNull)
     \/ \E val \in PutValues : client(p, "put", OwnId(p), val)
  /\ UNCHANGED <<adapter, timestamps, documents, stamps, reference, attachments, attached, wrap>>

NextFrame ==
  \/ Construct
  \/ Bootstrap({TRUE})
  \/ \E p \in Procs : CallOwn(p) \/ Await(p) \/ Read(p, {TRUE}) \/ Write(p, {TRUE})

SpecFrame == Init /\ [][NextFrame]_vars

\* What get can return on the rows stored under an id.
GetResults(rows) ==
  IF rows = <<>> THEN {JNull} ELSE {resultAsJson(adapter, rows[k]) : k \in DOMAIN rows}

\* C15: put(i, v) and remove(i) leave the rows of every other id as they
\* are, and a put that overlaps operations on other ids writes on what it
\* would have read had it run alone: the rows of an id change only in the
\* write of an operation on that id, and the document a put decided on is
\* still what the store holds under its id when its write runs.
FrameOfWrites ==
  [][/\ \A j \in Ids :
          Matching(j)' # Matching(j) =>
            \E p \in Procs : proc[p].pc = "write" /\ proc[p].id = j /\ proc'[p].pc = "done"
     /\ \A p \in Procs :
          (proc[p].pc = "write" /\ proc[p].op = "put" /\ proc'[p].pc = "done") =>
            proc[p].doc \in GetResults(Matching(proc[p].id))]_vars

\* Two puts on distinct ids overlap: both have read, neither has written,
\* and one of them is about to update a stored row.
WitnessOverlappingPuts ==
  /\ \A p \in Procs : proc[p].pc = "write" /\ proc[p].op = "put"
  /\ proc["p1"].id # proc["p2"].id
  /\ \E p \in Procs : putPath(proc[p].doc) = "update"

(***************************************************************************)
(* Attachments.  An attachment row holds the blob as a data URL.           *)
(***************************************************************************)
MaxAttachments == 2
NotFoundCode == 404

\* base64 of the blob contents in use.
base64(data) ==
  CASE data = "a" -> "YQ=="
    [] data = "hi" -> "aGk="
    [] OTHER -> ""

\* jIO.util.readBlobAsDataURL(blob), its data.target.result
readBlobAsDataURL(blob) == "data:" \o blob.type \o ";base64," \o base64(blob.data)

\* jIO.util.dataURItoBlob(dataURI)
dataURItoBlob(uri) == CHOOSE b \in Blobs : readBlobAsDataURL(b) = uri

\* new jIO.util.jIOError(message, code)
jIOError(message, code) == [t |-> "error", n |-> code, k |-> message]

AttachmentRow(id, name, value) == [id |-> id, name |-> name, value |-> value]
MatchingAttachments(id, name) ==
  SelectSeq(attachments, LAMBDA r : r.id = id /\ r.name = name)
MatchAttachmentIdx(id, name) ==
  {k \in DOMAIN attachments : attachments[k].id = id /\ attachments[k].name = name}

\* How an attachment operation settles: its status, the error or value it
\* settles with, and the blob of a resolved getAttachment.
SettledAttachment(status, res, blob) == [status |-> status, res |-> res, blob |-> blob]

\* Mutant: no matching attachment resolves to nothing instead of throwing.
getAttachment_noThrow(a, o, rows, id) ==
  LET q == IF a = "mongodb"
           THEN Settled(~o.work, IF o.work THEN RowsResult(rows) ELSE NullResult)
           ELSE executeQuery(a, o, rows)
  IN IF q.rejected THEN SettledAttachment("rejected", JStr("backend"), NoBlob)
     ELSE IF ~q.value.null /\ Len(q.value.rows) > 0
     THEN SettledAttachment("resolved", JNull, dataURItoBlob(q.value.rows[1].value))
     ELSE SettledAttachment("resolved", JNull, NoBlob)

\* getAttachment(id, name): the blob of the first row returned; the
\* not-found error when there is none.
getAttachment(a, o, rows, id) ==
  LET q == IF a = "mongodb"
           THEN Settled(~o.work, IF o.work THEN RowsResult(rows) ELSE NullResult)
           ELSE executeQuery(a, o, rows)
  IN IF q.rejected THEN SettledAttachment("rejected", JStr("backend"), NoBlob)
     ELSE IF ~q.value.null /\ Len(q.value.rows) > 0
     THEN SettledAttachment("resolved", JNull, dataURItoBlob(q.value.rows[1].value))
     ELSE SettledAttachment("rejected",
                            jIOError("Cannot find attachment: " \o id, NotFoundCode), NoBlob)

\* DELETE FROM attachments WHERE _id = id AND name = name: every matching
\* row.  deleteOne: the one matching document k.
deleteAttachments(a, rows, id, name, k) ==
  IF a = "mongodb"
  THEN IF k = 0 THEN rows ELSE Without(rows, k)
  ELSE SelectSeq(rows, LAMBDA r : ~(r.id = id /\ r.name = name))

\* storage.getAttachment / putAttachment / removeAttachment is invoked.
CallAttachment(p) ==
  /\ inst = "constructed"
  /\ ~InFlight(p)
  /\ \E op \in AttachmentOps, id \in Ids, name \in Names, blob \in Blobs \cup {NoBlob} :
       /\ op = "putAttachment" <=> blob # NoBlob
       /\ proc' = [proc EXCEPT ![p] =
            [Idle EXCEPT !.pc = IF pool THEN FirstPc(op) ELSE "await",
                         !.op = op, !.id = id, !.name = name, !.blob = blob]]
  /\ UNCHANGED <<adapter, timestamps, options, inst, error, bootVars, documents, stamps, reference,
                 attachments, attached, wrap>>

\* The statement of an attachment operation and what it settles to.
Attachment(p, B) ==
  /\ proc[p].pc = "attachment"
  /\ LET op == proc[p].op
         id == proc[p].id
         name == proc[p].name
     IN IF op = "getAttachment"
        THEN \E o \in OutcomesOf(readCalls(adapter), B),
                rows \in ResultOrders(MatchingAttachments(id, name)) :
               /\ o.work => tables
               /\ LET g == getAttachment(adapter, o, rows, id)
                  IN proc' = [proc EXCEPT ![p] =
                       [Done(p, g.status, g.res) EXCEPT !.blob = g.blob]]
               /\ UNCHANGED <<attachments, attached>>
        ELSE \E o \in OutcomesOf(writeCalls(adapter), B),
                k \in MatchAttachmentIdx(id, name) \cup {0} :
               /\ o.work => tables
               /\ k = 0 => MatchAttachmentIdx(id, name) = {}
               /\ LET w == write(adapter, o)
                      put == op = "putAttachment"
                  IN /\ (w.applied /\ put) => Len(attachments) < MaxAttachments
                     /\ attachments' =
                          IF ~w.applied THEN attachments
                          ELSE IF put
                          THEN Append(attachments,
                                      AttachmentRow(id, name, readBlobAsDataURL(proc[p].blob)))
                          ELSE deleteAttachments(adapter, attachments, id, name, k)
                     /\ attached' =
                          IF ~w.applied THEN attached
                          ELSE [attached EXCEPT ![id, name] =
                                  IF put THEN proc[p].blob ELSE NoBlob]
                     /\ proc' = [proc EXCEPT ![p] =
                          IF w.rejected THEN Done(p, "rejected", JStr("backend"))
                          ELSE Done(p, "resolved", IF put THEN JNull ELSE JStr(id))]
  /\ UNCHANGED <<adapter, timestamps, options, inst, error, bootVars, documents, stamps, reference, wrap>>

\* SpecAttach: one caller working on attachments, no backend call fails.
NextAttach ==
  \/ Construct
  \/ Bootstrap({TRUE})
  \/ CallAttachment("p1") \/ Await("p1") \/ Attachment("p1", {TRUE})

SpecAttach == Init /\ [][NextAttach]_vars

GetAttachmentDone(p) == proc[p].pc = "done" /\ proc[p].op = "getAttachment"

\* C16: after putAttachment(i, n, b) has resolved, from whatever state it
\* was called in, getAttachment(i, n) resolves to the blob b.  (attached[i, n]
\* is b exactly when putAttachment(i, n, b) was the last write executed on
\* (i, n); one caller, no backend failure.)
AttachmentRoundTrip ==
  \A p \in Procs :
    (GetAttachmentDone(p) /\ attached[proc[p].id, proc[p].name] # NoBlob) =>
      /\ proc[p].status = "resolved"
      /\ proc[p].blob = attached[proc[p].id, proc[p].name]

\* C17: getAttachment(i, n) rejects with the jIOError 'Cannot find
\* attachment: <i>' of status code 404 when no stored attachment matches i
\* and n, and resolves to the blob of a matching one when there is one.
GetAttachmentNotFound ==
  \A p \in Procs :
    GetAttachmentDone(p) =>
      LET m == MatchingAttachments(proc[p].id, proc[p].name)
      IN IF m = <<>>
         THEN /\ proc[p].status = "rejected"
              /\ proc[p].res = [t |-> "error", n |-> 404,
                                k |-> "Cannot find attachment: " \o proc[p].id]
         ELSE /\ proc[p].status = "resolved"
              /\ proc[p].blob \in {dataURItoBlob(m[k].value) : k \in DOMAIN m}

\* getAttachment("a", "n2") was rejected as not found while ("a", "n1") and
\* ("b", "n2") are stored: a match on the id alone or on the name alone is
\* no match.
WitnessAttachmentNotFound ==
  /\ GetAttachmentDone("p1")
  /\ proc["p1"].id = "a" /\ proc["p1"].name = "n2"
  /\ proc["p1"].status = "rejected"
  /\ MatchingAttachments("a", "n1") # <<>>
  /\ MatchingAttachments("b", "n2") # <<>>

\* The options the constructor was given: initDb keeps the database name
\* aside while options.database is replaced.
GivenOptions ==
  [address |-> options.address,
   database |-> IF inst = "constructed" THEN database ELSE options.database]

MissingOrEmpty(value) == value = Undefined \/ value = JStr("")
AddressMessage == "\"" \o addressField(adapter) \o "\" must be a non-empty string"
DatabaseMessage == "\"database\" must be a non-empty string"

\* C18, as amended: the constructor throws the address message when the
\* address field is missing or empty, or, on MariaDB, MSSQL and MongoDB, not
\* a string; otherwise it throws the database message when database is
\* missing, empty or not a string; in both cases no bootstrap is started;
\* in every other case it does not throw and starts the bootstrap.
ConstructorValidation ==
  inst # "none" =>
    LET o == GivenOptions
        badAddress == MissingOrEmpty(o.address)
                        \/ (adapter # "postgresql" /\ o.address.t # "string")
        badDatabase == MissingOrEmpty(o.database) \/ o.database.t # "string"
    IN IF badAddress
       THEN inst = "threw" /\ error = AddressMessage /\ initDbCalls = 0 /\ dbPromise = "none"
       ELSE IF badDatabase
       THEN inst = "threw" /\ error = DatabaseMessage /\ initDbCalls = 0 /\ dbPromise = "none"
       ELSE inst = "constructed" /\ error = "" /\ initDbCalls = 1 /\ dbPromise # "none"

\* The constructor threw the database message on a database that is not a
\* string, the address being in order.
WitnessDatabaseNotString ==
  /\ inst = "threw"
  /\ error = DatabaseMessage
  /\ options.database = JNum(5)
  /\ options.address = JStr("db.host")

\* C18, as stated: the address message is thrown exactly when the address
\* field is missing or empty; otherwise the database message when database is
\* missing, empty or not a string; in every other case the constructor does
\* not throw and starts the bootstrap.
ConstructorValidationAsStated ==
  inst # "none" =>
    LET o == GivenOptions
        badDatabase == MissingOrEmpty(o.database) \/ o.database.t # "string"
    IN IF MissingOrEmpty(o.address)
       THEN inst = "threw" /\ error = AddressMessage /\ initDbCalls = 0 /\ dbPromise = "none"
       ELSE IF badDatabase
       THEN inst = "threw" /\ error = DatabaseMessage /\ initDbCalls = 0 /\ dbPromise = "none"
       ELSE inst = "constructed" /\ error = "" /\ initDbCalls = 1 /\ dbPromise # "none"

(***************************************************************************)
(* buildQuery.  PostgreSQL and MongoDB translate the query tree and the    *)
(* sort_on list to their backend's filter and order; MariaDB and MSSQL     *)
(* list the table.  The backend's part (which rows a WHERE clause or a     *)
(* filter document keeps, which orders an ORDER BY or a sort allows) is    *)
(* given by the operators that follow each translation.                    *)
(***************************************************************************)
Keys == {"x"}
Operands == {1, 2}

RECURSIVE Join(_, _)
\* Array.prototype.join
Join(strings, separator) ==
  IF strings = <<>> THEN ""
  ELSE IF Len(strings) = 1 THEN strings[1]
  ELSE strings[1] \o separator \o Join(Tail(strings), separator)

\* The decimal digits of a number, and the order of two numbers as texts.
RECURSIVE Digits(_)
Digits(n) == IF n < 10 THEN <<n>> ELSE Append(Digits(n \div 10), n % 10)

RECURSIVE LexLess(_, _)
LexLess(s, t) ==
  IF t = <<>> THEN FALSE
  ELSE IF s = <<>> THEN TRUE
  ELSE IF Head(s) # Head(t) THEN Head(s) < Head(t)
  ELSE LexLess(Tail(s), Tail(t))

TextLess(m, n) == LexLess(Digits(m), Digits(n))

\* The order of the ids as strings.
IdRank(id) == IF id = "a" THEN 1 ELSE 2

\* Every order in which a backend may hand back the rows m.
AllOrders(m) ==
  IF m = <<>> THEN {<<>>}
  ELSE {[i \in DOMAIN m |-> m[f[i]]] : f \in Permutations(DOMAIN m)}

\* The payload of a stored row has field key / the number held there.
HasField(a, row, key) ==
  LET value == resultAsJson(a, row)
  IN value.t = "object" /\ value.k # "" /\ value.k = key
FieldOf(a, row) == resultAsJson(a, row).n

\* --- PostgreSQL: the translation ---
\* `value ->> 'key' operator 'value'`
parseSimpleQueryPostgreSQL(query, key) ==
  "value ->> '" \o key \o "' "
    \o (IF query.operator # "" THEN query.operator ELSE "=")
    \o " '" \o ToString(query.value) \o "'"

RECURSIVE parseQueryPostgreSQL(_, _)
\* The translations of the sub-queries joined by the group's operator, in
\* parentheses.
parseComplexQueryPostgreSQL(query) ==
  "(" \o Join([i \in DOMAIN query.query_list |->
                 parseQueryPostgreSQL(query.query_list[i], query.key)],
              " " \o query.operator \o " ") \o ")"

parseQueryPostgreSQL(parsed, key) ==
  IF parsed.type = "complex" THEN parseComplexQueryPostgreSQL(parsed)
  ELSE parseSimpleQueryPostgreSQL(parsed, IF parsed.key # "" THEN parsed.key ELSE key)

\* buildQuery's WHERE and ORDER BY clauses ("" when the option is not given).
whereClause(opts) ==
  IF opts.query # NoQuery THEN " WHERE " \o parseQueryPostgreSQL(opts.query, "") ELSE ""

sortTerm(values) ==
  "value ->> '" \o values[1] \o "' " \o (IF values[2] = "ascending" THEN "ASC" ELSE "DESC")

orderByClause(opts) ==
  IF opts.sort_on # <<>>
  THEN " ORDER BY " \o Join([i \in DOMAIN opts.sort_on |-> sortTerm(opts.sort_on[i])], ", ")
  ELSE ""

\* --- PostgreSQL: the backend ---
\* The conditions the WHERE clauses are texts of: one comparison of a
\* payload field, as text, with a literal, or a parenthesised list of such
\* comparisons joined by AND or OR.  The sort terms of an ORDER BY: a payload
\* field, as text, or the _id column.
SqlOperators == {"=", "!=", "<", "<=", ">", ">="}
SqlComparisons == [field : Keys, operator : SqlOperators, literal : Operands]
SqlConditions ==
  [parens : {FALSE}, connective : {"AND"}, terms : {<<c>> : c \in SqlComparisons}]
    \cup [parens : {TRUE}, connective : {"AND"}, terms : {<<c>> : c \in SqlComparisons}]
    \cup [parens : {TRUE}, connective : {"AND", "OR"},
          terms : {<<c, d>> : c, d \in SqlComparisons}]
SqlSortTerms == [column : Keys \cup {"_id"}, direction : {"ASC", "DESC"}]
SqlSortLists == {<<c>> : c \in SqlSortTerms} \cup {<<c, d>> : c, d \in SqlSortTerms}

sqlComparisonText(c) ==
  "value ->> '" \o c.field \o "' " \o c.operator \o " '" \o ToString(c.literal) \o "'"
sqlConditionText(e) ==
  LET list == Join([i \in DOMAIN e.terms |-> sqlComparisonText(e.terms[i])],
                   " " \o e.connective \o " ")
  IN IF e.parens THEN "(" \o list \o ")" ELSE list
sqlSortTermText(t) ==
  (IF t.column = "_id" THEN "_id" ELSE "value ->> '" \o t.column \o "'") \o " " \o t.direction
sqlSortText(list) == Join([i \in DOMAIN list |-> sqlSortTermText(list[i])], ", ")

\* A comparison is true of a row: the field is there (->> of a missing field
\* is NULL and no comparison with NULL is true) and its text compares so.
sqlComparisonTrue(c, row) ==
  /\ HasField("postgresql", row, c.field)
  /\ LET n == FieldOf("postgresql", row)
     IN CASE c.operator = "=" -> n = c.literal
          [] c.operator = "!=" -> n # c.literal
          [] c.operator = "<" -> TextLess(n, c.literal)
          [] c.operator = "<=" -> ~TextLess(c.literal, n)
          [] c.operator = ">" -> TextLess(c.literal, n)
          [] OTHER -> ~TextLess(n, c.literal)

sqlConditionTrue(e, row) ==
  IF e.connective = "AND" THEN \A i \in DOMAIN e.terms : sqlComparisonTrue(e.terms[i], row)
  ELSE \E i \in DOMAIN e.terms : sqlComparisonTrue(e.terms[i], row)

\* ORDER BY: row r must come before row s by the first term on which they
\* differ.  ASC puts NULL last, DESC first.
RECURSIVE sqlBefore(_, _, _)
sqlBefore(list, r, s) ==
  IF list = <<>> THEN FALSE
  ELSE LET t == Head(list)
           less ==
             IF t.column = "_id" THEN IdRank(r.id) < IdRank(s.id)
             ELSE /\ HasField("postgresql", r, t.column)
                  /\ \/ ~HasField("postgresql", s, t.column)
                     \/ TextLess(FieldOf("postgresql", r), FieldOf("postgresql", s))
           greater ==
             IF t.column = "_id" THEN IdRank(s.id) < IdRank(r.id)
             ELSE /\ HasField("postgresql", s, t.column)
                  /\ \/ ~HasField("postgresql", r, t.column)
                     \/ TextLess(FieldOf("postgresql", s), FieldOf("postgresql", r))
       IN IF less THEN t.direction = "ASC"
          ELSE IF greater THEN t.direction = "DESC"
          ELSE sqlBefore(Tail(list), r, s)

\* SELECT * FROM documents<where><orderBy>: the statement is accepted, and
\* the row sequences it may return.
selectValid(where, orderBy) ==
  /\ where = "" \/ \E e \in SqlConditions : " WHERE " \o sqlConditionText(e) = where
  /\ orderBy = "" \/ \E list \in SqlSortLists : " ORDER BY " \o sqlSortText(list) = orderBy

select(docs, where, orderBy) ==
  LET kept ==
        IF where = "" THEN docs
        ELSE LET e == CHOOSE e \in SqlConditions : " WHERE " \o sqlConditionText(e) = where
             IN SelectSeq(docs, LAMBDA r : sqlConditionTrue(e, r))
  IN IF orderBy = "" THEN AllOrders(kept)
     ELSE LET list == CHOOSE list \in SqlSortLists :
                        " ORDER BY " \o sqlSortText(list) = orderBy
          IN {rows \in AllOrders(kept) :
                \A i, j \in DOMAIN rows : i < j => ~sqlBefore(list, rows[j], rows[i])}

\* --- MongoDB: the translation ---
keyToDBField(key) == IF key = "modification_date" THEN "createdAt" ELSE "doc." \o key
valueToDBValue(key, value) ==
  [t |-> IF key = "modification_date" THEN "date" ELSE "number", n |-> value]

queryOperator_lteAsLt(operator) ==
  CASE operator = "!=" -> "$ne"
    [] operator = "<" -> "$lt"
    [] operator = "<=" -> "$lt"
    [] operator = ">" -> "$gt"
    [] operator = ">=" -> "$gte"
    [] OTHER -> "$eq"

queryOperator(operator) ==
  CASE operator = "!=" -> "$ne"
    [] operator = "<" -> "$lt"
    [] operator = "<=" -> "$lte"
    [] operator = ">" -> "$gt"
    [] operator = ">=" -> "$gte"
    [] OTHER -> "$eq"

\* A filter document: {field: {operator: value}} or {operator: [filters]}.
FieldFilter(field, operator, value) ==
  [field |-> field, operator |-> operator, value |-> value, filters |-> <<>>]
ListFilter(operator, filters) ==
  [field |-> "", operator |-> operator, value |-> [t |-> "none", n |-> 0], filters |-> filters]
EmptyFilter == ListFilter("", <<>>)

parseSimpleQueryMongoDB(query, key) ==
  FieldFilter(keyToDBField(key),
              queryOperator(IF query.operator # "" THEN query.operator ELSE "="),
              valueToDBValue(key, query.value))

RECURSIVE parseQueryMongoDB(_, _)
parseComplexQueryMongoDB(query) ==
  ListFilter(CASE query.operator = "AND" -> "$and"
               [] query.operator = "OR" -> "$or"
               [] query.operator = "NOT" -> "$not"
               [] OTHER -> "",
             [i \in DOMAIN query.query_list |->
                parseQueryMongoDB(query.query_list[i], query.key)])

parseQueryMongoDB(parsed, key) ==
  IF parsed.type = "complex" THEN parseComplexQueryMongoDB(parsed)
  ELSE parseSimpleQueryMongoDB(parsed, IF parsed.key # "" THEN parsed.key ELSE key)

queryParseQuery(opts) ==
  IF opts.query # NoQuery THEN parseQueryMongoDB(opts.query, "") ELSE EmptyFilter

\* The sort list (<<>> for undefined): sort_on on the payload fields, then
\* the id, descending.
querySort(opts) ==
  IF opts.sort_on # <<>>
  THEN [i \in DOMAIN opts.sort_on |->
          <<keyToDBField(opts.sort_on[i][1]), opts.sort_on[i][2]>>]
         \o << <<"__id", "descending">> >>
  ELSE <<>>

\* --- MongoDB: the backend ---
\* find() accepts the filter: $and / $or take a non-empty list of filters,
\* any other operator at the top of a filter is refused.
RECURSIVE filterValid(_)
filterValid(f) ==
  \/ f = EmptyFilter
  \/ f.field # ""
  \/ /\ f.operator \in {"$and", "$or"}
     /\ f.filters # <<>>
     /\ \A i \in DOMAIN f.filters : filterValid(f.filters[i])

\* The filter matches the document.  A field path "doc.<key>" reads the
\* payload; a value matches values of its own type only; $ne is the
\* complement of $eq and so matches a document without the field.
RECURSIVE filterMatches(_, _)
filterMatches(f, row) ==
  IF f = EmptyFilter THEN TRUE
  ELSE IF f.field = ""
  THEN IF f.operator = "$and" THEN \A i \in DOMAIN f.filters : filterMatches(f.filters[i], row)
       ELSE \E i \in DOMAIN f.filters : filterMatches(f.filters[i], row)
  ELSE LET has == \E key \in Keys : f.field = "doc." \o key /\ HasField("mongodb", row, key)
           comparable == has /\ f.value.t = "number"
           n == FieldOf("mongodb", row)
       IN CASE f.operator = "$eq" -> comparable /\ n = f.value.n
            [] f.operator = "$ne" -> ~(comparable /\ n = f.value.n)
            [] f.operator = "$lt" -> comparable /\ n < f.value.n
            [] f.operator = "$lte" -> comparable /\ n <= f.value.n
            [] f.operator = "$gt" -> comparable /\ n > f.value.n
            [] OTHER -> comparable /\ n >= f.value.n

\* sort: document r must come before document s by the first entry on which
\* they differ.  A missing field sorts as null, before every number.
RECURSIVE sortBefore(_, _, _)
sortBefore(sort, r, s) ==
  IF sort = <<>> THEN FALSE
  ELSE LET field == Head(sort)[1]
           hasR == \E key \in Keys : field = "doc." \o key /\ HasField("mongodb", r, key)
           hasS == \E key \in Keys : field = "doc." \o key /\ HasField("mongodb", s, key)
           less ==
             IF field = "__id" THEN IdRank(r.id) < IdRank(s.id)
             ELSE (~hasR /\ hasS) \/ (hasR /\ hasS /\ FieldOf("mongodb", r) < FieldOf("mongodb", s))
           greater ==
             IF field = "__id" THEN IdRank(s.id) < IdRank(r.id)
             ELSE (~hasS /\ hasR) \/ (hasR /\ hasS /\ FieldOf("mongodb", s) < FieldOf("mongodb", r))
       IN IF less THEN Head(sort)[2] = "ascending"
          ELSE IF greater THEN Head(sort)[2] = "descending"
          ELSE sortBefore(Tail(sort), r, s)

\* collection.find(filter, {sort}).toArray(): the document sequences it may
\* resolve to.
find(docs, filter, sort) ==
  LET kept == SelectSeq(docs, LAMBDA r : filterMatches(filter, r))
  IN {rows \in AllOrders(kept) :
        \A i, j \in DOMAIN rows : i < j => ~sortBefore(sort, rows[j], rows[i])}

\* --- limit ---
DefaultLimit == 100

\* LIMIT n OFFSET o (MariaDB, PostgreSQL), OFFSET o ROWS FETCH NEXT n ROWS
\* ONLY (MSSQL), {skip: o, limit: n} (MongoDB): a falsy offset is 0, a falsy
\* count is 100; no clause when options.limit is not given.
NoLimit == [clause |-> "", offset |-> 0, count |-> 0]
queryLimit(a, opts) ==
  IF opts.limit # <<>>
  THEN [clause |-> CASE a = "mssql" -> "OFFSET FETCH"
                     [] a = "mongodb" -> "skip limit"
                     [] OTHER -> "LIMIT OFFSET",
        offset |-> IF opts.limit[1] # 0 THEN opts.limit[1] ELSE 0,
        count |-> IF opts.limit[2] # 0 THEN opts.limit[2] ELSE DefaultLimit]
  ELSE NoLimit

\* The backend's part: the rows of its order the clause lets through.
Window(rows, lim) ==
  IF lim.clause = "" THEN rows
  ELSE SubSeq(rows, lim.offset + 1,
              IF lim.offset + lim.count < Len(rows) THEN lim.offset + lim.count ELSE Len(rows))

\* --- the operation ---
\* The statement buildQuery issues is accepted by the backend.  T-SQL's
\* OFFSET ... FETCH is part of the ORDER BY clause, and MSSQL's statement
\* has none.
StatementValid(a, opts) ==
  CASE a = "postgresql" -> selectValid(whereClause(opts), orderByClause(opts))
    [] a = "mongodb" -> filterValid(queryParseQuery(opts))
    [] a = "mssql" -> queryLimit(a, opts).clause # "OFFSET FETCH"
    [] OTHER -> TRUE

\* The row sequences the statement may return: MariaDB and MSSQL select the
\* whole table.
BackendOrders(a, opts) ==
  CASE a = "postgresql" -> select(documents, whereClause(opts), orderByClause(opts))
    [] a = "mongodb" -> find(documents, queryParseQuery(opts), querySort(opts))
    [] OTHER -> AllOrders(documents)

\* queryProjection (MongoDB): the field paths find() is asked to keep, {}
\* for undefined.
queryProjection(selectList) ==
  IF selectList # <<>>
  THEN {"__id"} \cup {keyToDBField(selectList[i]) : i \in DOMAIN selectList}
  ELSE {}

\* The backend's part: the document with the payload fields the projection
\* names; a payload that is not an object is left out.
Projected(row, projection) ==
  IF projection = {} THEN row
  ELSE [row EXCEPT !.value =
          IF row.value.t # "object" THEN Undefined
          ELSE IF row.value.k # "" /\ keyToDBField(row.value.k) \in projection THEN row.value
          ELSE JEmptyObj]

StatementRows(a, opts) ==
  IF StatementValid(a, opts)
  THEN {LET page == Window(rows, queryLimit(a, opts))
        IN IF a = "mongodb"
           THEN [i \in DOMAIN page |-> Projected(page[i], queryProjection(opts.select_list))]
           ELSE page : rows \in BackendOrders(a, opts)}
  ELSE {<<>>}

\* doc[key] for the keys of selectList, as an object: a key doc does not
\* hold is set to undefined and so does not show.
Selected(doc, selectList) ==
  IF \E i \in DOMAIN selectList : doc.t = "object" /\ doc.k # "" /\ doc.k = selectList[i]
  THEN doc ELSE JEmptyObj

\* queryParseDocument / the map callback: the element of the result made
\* from a row; doc and value are Undefined when they are not set.  MariaDB
\* and PostgreSQL test options.select_list, MSSQL and MongoDB
\* selectList.length.
queryParseDocument(a, row, opts) ==
  LET doc == resultAsJson(a, row)
  IN [id |-> row.id,
      doc |-> IF opts.include_docs THEN doc ELSE Undefined,
      value |-> IF ~opts.include_docs /\ opts.select_list # <<>>
                THEN Selected(doc, opts.select_list) ELSE Undefined]

\* Reading doc[key] throws when doc is null or undefined.
parseThrows(a, row, opts) ==
  /\ ~opts.include_docs
  /\ opts.select_list # <<>>
  /\ resultAsJson(a, row).t \in {"null", "undefined"}

Listed(rejected, fetched, list) == [rejected |-> rejected, fetched |-> fetched, list |-> list]

mapDocuments(a, rows, opts) ==
  IF \E i \in DOMAIN rows : parseThrows(a, rows[i], opts) THEN Listed(TRUE, <<>>, <<>>)
  ELSE Listed(FALSE, rows, [i \in DOMAIN rows |-> queryParseDocument(a, rows[i], opts)])

\* buildQuery(options): MariaDB maps a null result to [], PostgreSQL maps
\* result.rows, MSSQL result.recordset, MongoDB the documents found.
buildQuery(a, o, rows, opts) ==
  IF a = "mongodb"
  THEN IF ~o.work THEN Listed(TRUE, <<>>, <<>>) ELSE mapDocuments(a, rows, opts)
  ELSE LET q == executeQuery(a, o, rows)
       IN IF q.rejected THEN Listed(TRUE, <<>>, <<>>)
          ELSE mapDocuments(a, IF q.value.null THEN <<>> ELSE q.value.rows, opts)

\* The query trees and options callers pass: predicates, groups of two
\* predicates on different operands (with their own key, or without one
\* under a group that has it), the negation of a predicate; a sort with no
\* query or with a predicate.
Predicates == {SimpleQuery(key, op, v) : key \in Keys, op \in {"", "!=", "<"}, v \in Operands}
Shorthands == {SimpleQuery("", op, v) : op \in {"", "!="}, v \in Operands}
Queries ==
  Predicates
    \cup {ComplexQuery(op, "", <<c, d>>) :
            op \in {"AND", "OR"},
            c \in {q \in Predicates : q.value = 1}, d \in {q \in Predicates : q.value = 2}}
    \cup {ComplexQuery("OR", key, <<c, d>>) :
            key \in Keys,
            c \in {q \in Shorthands : q.value = 1}, d \in {q \in Shorthands : q.value = 2}}
    \cup {ComplexQuery("NOT", "", <<c>>) : c \in Predicates}
SortOns == {<< <<key, dir>> >> : key \in Keys, dir \in {"ascending", "descending"}}
QueryOptions ==
  [query : Queries \cup {NoQuery}, sort_on : {<<>>}, limit : {<<>>},
   include_docs : {FALSE}, select_list : {<<>>}]
    \cup [query : Predicates \cup {NoQuery}, sort_on : SortOns, limit : {<<>>},
          include_docs : {FALSE}, select_list : {<<>>}]

\* storage.buildQuery(options) is invoked.
CallBuildQuery(p) ==
  /\ inst = "constructed"
  /\ ~InFlight(p)
  /\ \E opts \in QueryOptions :
       proc' = [proc EXCEPT ![p] =
         [Idle EXCEPT !.pc = IF pool THEN FirstPc("buildQuery") ELSE "await",
                      !.op = "buildQuery", !.opts = opts]]
  /\ UNCHANGED <<adapter, timestamps, options, inst, error, bootVars, documents, stamps, reference,
                 attachments, attached, wrap>>

\* The SELECT / find of buildQuery and the mapping of its rows.
BuildQuery(p, B) ==
  /\ proc[p].pc = "query"
  /\ \E o \in OutcomesOf(readCalls(adapter), B), rows \in StatementRows(adapter, proc[p].opts) :
       /\ o.work => tables
       /\ LET done == [o EXCEPT !.work = o.work /\ StatementValid(adapter, proc[p].opts)]
              r == buildQuery(adapter, done, rows, proc[p].opts)
          IN proc' = [proc EXCEPT ![p] =
               IF r.rejected THEN Done(p, "rejected", JStr("backend"))
               ELSE [Done(p, "resolved", JNull) EXCEPT !.fetched = r.fetched, !.list = r.list]]
  /\ UNCHANGED <<adapter, timestamps, options, inst, error, bootVars, documents, stamps, reference,
                 attachments, attached, wrap>>

\* SpecQuery: one caller storing documents and listing them, no backend
\* call fails.
QueryDocs == {JObj("x", 1), JObj("x", 2), JEmptyObj}

NextQuery ==
  \/ Construct
  \/ Bootstrap({TRUE})
  \/ CallPut("p1", QueryDocs)
  \/ CallBuildQuery("p1")
  \/ Await("p1") \/ Read("p1", {TRUE}) \/ Write("p1", {TRUE})
  \/ BuildQuery("p1", {TRUE})

SpecQuery == Init /\ [][NextQuery]_vars

QueryDone(p) == proc[p].pc = "done" /\ proc[p].op = "buildQuery"

\* The payload satisfies the query: a predicate compares the field named by
\* its key (or by the enclosing group's) with its value, != being the
\* negation of =; AND, OR and NOT are the boolean connectives.
RECURSIVE Satisfies(_, _, _)
Satisfies(value, query, key) ==
  IF query.type = "complex"
  THEN CASE query.operator = "AND" ->
              \A i \in DOMAIN query.query_list : Satisfies(value, query.query_list[i], query.key)
         [] query.operator = "OR" ->
              \E i \in DOMAIN query.query_list : Satisfies(value, query.query_list[i], query.key)
         [] OTHER -> ~Satisfies(value, query.query_list[1], query.key)
  ELSE LET field == IF query.key # "" THEN query.key ELSE key
           has == value.t = "object" /\ value.k # "" /\ value.k = field
       IN CASE query.operator \in {"", "="} -> has /\ value.n = query.value
            [] query.operator = "!=" -> ~(has /\ value.n = query.value)
            [] OTHER -> has /\ value.n < query.value

RECURSIVE HasNot(_)
HasNot(query) ==
  /\ query.type = "complex"
  /\ \/ query.operator = "NOT"
     \/ \E i \in DOMAIN query.query_list : HasNot(query.query_list[i])

\* C19: buildQuery with options.query (a tree of predicates and AND/OR
\* groups) resolves, on PostgreSQL and MongoDB, to exactly the stored
\* documents whose payload satisfies the query and, on MariaDB and MSSQL, to
\* all the stored documents.  (One caller, no backend failure.)
QueryFilters ==
  \A p \in Procs :
    (QueryDone(p) /\ proc[p].opts.query # NoQuery /\ ~HasNot(proc[p].opts.query)) =>
      /\ proc[p].status = "resolved"
      /\ Len(proc[p].list) = Len(proc[p].fetched)
      /\ \A i \in DOMAIN proc[p].list : proc[p].list[i].id = proc[p].fetched[i].id
      /\ proc[p].fetched \in
           AllOrders(IF adapter \in {"postgresql", "mongodb"}
                     THEN SelectSeq(documents,
                            LAMBDA r : Satisfies(resultAsJson(adapter, r), proc[p].opts.query, ""))
                     ELSE documents)

\* C20: buildQuery with sort_on [[f, 'ascending']] on PostgreSQL and MongoDB
\* resolves to the documents in ascending order of payload field f, and two
\* documents that hold the same value of f come in descending order of their
\* ids.  (One caller, no backend failure.)
SortedByFieldThenId ==
  \A p \in Procs : \A f \in Keys :
    (/\ QueryDone(p)
     /\ proc[p].opts.sort_on = << <<f, "ascending">> >>
     /\ adapter \in {"postgresql", "mongodb"}) =>
      /\ proc[p].status = "resolved"
      /\ \A i, j \in DOMAIN proc[p].fetched :
           i < j =>
             LET r == proc[p].fetched[i]
                 s == proc[p].fetched[j]
                 hasR == HasField(adapter, r, f)
                 hasS == HasField(adapter, s, f)
             IN /\ (hasR /\ hasS) => FieldOf(adapter, r) <= FieldOf(adapter, s)
                /\ (hasR /\ hasS /\ FieldOf(adapter, r) = FieldOf(adapter, s)) =>
                     IdRank(r.id) >= IdRank(s.id)

(***************************************************************************)
(* SpecList: one caller storing documents and listing them with limit and  *)
(* sort_on, or with include_docs and select_list; no backend call fails.   *)
(***************************************************************************)
Limits == {<<0, 1>>, <<1, 1>>, <<0, 0>>, <<1, 0>>}
SelectLists == {<<"x">>, <<"y">>}
ListOptions ==
  [query : {NoQuery},
   sort_on : {<<>>, << <<"x", "ascending">> >>},
   limit : Limits \cup {<<>>},
   include_docs : {FALSE}, select_list : {<<>>}]
    \cup [query : {NoQuery}, sort_on : {<<>>}, limit : {<<>>},
          include_docs : BOOLEAN, select_list : SelectLists \cup {<<>>}]

\* storage.buildQuery(options) is invoked with listing options.
CallList(p) ==
  /\ inst = "constructed"
  /\ ~InFlight(p)
  /\ \E opts \in ListOptions :
       proc' = [proc EXCEPT ![p] =
         [Idle EXCEPT !.pc = IF pool THEN FirstPc("buildQuery") ELSE "await",
                      !.op = "buildQuery", !.opts = opts]]
  /\ UNCHANGED <<adapter, timestamps, options, inst, error, bootVars, documents, stamps, reference,
                 attachments, attached, wrap>>

NextList ==
  \/ Construct
  \/ Bootstrap({TRUE})
  \/ CallPut("p1", QueryDocs)
  \/ CallList("p1")
  \/ Await("p1") \/ Read("p1", {TRUE}) \/ Write("p1", {TRUE})
  \/ BuildQuery("p1", {TRUE})

SpecList == Init /\ [][NextList]_vars

\* C21: buildQuery with limit [o, n] resolves to at most n documents, those
\* that follow the first o of an order the backend may list the documents
\* in, a falsy o counting as 0 and a falsy n as 100; without options.limit it
\* resolves to all the documents.  (One caller, no backend failure.)
LimitIsAPage ==
  \A p \in Procs :
    QueryDone(p) =>
      LET limit == proc[p].opts.limit
          o == IF limit = <<>> THEN 0 ELSE limit[1]
          n == IF limit = <<>> THEN Len(documents)
               ELSE IF limit[2] = 0 THEN 100 ELSE limit[2]
      IN /\ proc[p].status = "resolved"
         /\ Len(proc[p].list) <= n
         /\ \E rows \in BackendOrders(adapter, [proc[p].opts EXCEPT !.limit = <<>>]) :
              /\ Len(proc[p].fetched) = (IF Len(rows) <= o THEN 0
                                         ELSE IF Len(rows) - o <= n THEN Len(rows) - o ELSE n)
              /\ \A i \in DOMAIN proc[p].fetched :
                   proc[p].fetched[i] =
                     (IF adapter = "mongodb"
                      THEN Projected(rows[o + i], queryProjection(proc[p].opts.select_list))
                      ELSE rows[o + i])
         /\ Len(proc[p].list) = Len(proc[p].fetched)
         /\ \A i \in DOMAIN proc[p].list : proc[p].list[i].id = proc[p].fetched[i].id

\* C22: every element of buildQuery's result carries the id of a stored
\* document; with include_docs it has doc, the full stored value of that
\* document, and no value; with select_list and no include_docs it has
\* value, the requested fields of that document, and no doc; with neither
\* it has only the id.  (One caller, no backend failure.)
ElementShape ==
  \A p \in Procs :
    QueryDone(p) =>
      /\ \A i \in DOMAIN proc[p].list :
           LET e == proc[p].list[i]
               opts == proc[p].opts
           IN \E k \in DOMAIN documents :
                LET stored == resultAsJson(adapter, documents[k])
                IN /\ documents[k].id = e.id
                   /\ IF opts.include_docs
                      THEN e.doc = stored /\ e.value = Undefined
                      ELSE IF opts.select_list # <<>>
                      THEN /\ e.doc = Undefined
                           /\ e.value = (IF \E j \in DOMAIN opts.select_list :
                                              stored.k = opts.select_list[j]
                                         THEN stored ELSE JEmptyObj)
                      ELSE e.doc = Undefined /\ e.value = Undefined

(***************************************************************************)
(* SpecCap: a constructed instance is asked for its capacities.            *)
(***************************************************************************)
\* The capacity names a caller asks about: the six jIO names and one that is
\* none of them.
Capacities == {"list", "include", "select", "limit", "query", "sort", "other"}

\* hasCapacity(name)
hasCapacity_listOnly(a, name) ==
  IF a \in {"postgresql", "mongodb"} THEN TRUE
  ELSE name = "list"

hasCapacity(a, name) ==
  IF a \in {"postgresql", "mongodb"} THEN TRUE
  ELSE name = "list" \/ name = "include" \/ name = "select" \/ name = "limit"

\* hasCapacity is synchronous and touches neither the handle nor the data.
CallHasCapacity(p) ==
  /\ inst = "constructed"
  /\ proc[p].pc = "idle"
  /\ \E name \in Capacities :
       proc' = [proc EXCEPT ![p] = [Idle EXCEPT !.pc = "done", !.op = "hasCapacity",
                                                !.name = name, !.status = "resolved",
                                                !.res = JBool(hasCapacity(adapter, name))]]
  /\ UNCHANGED <<adapter, timestamps, options, inst, error, database, bootPc, pool, dbPromise,
                 tables, initDbCalls, schemaRuns, documents, stamps, reference, attachments,
                 attached, wrap>>

NextCap == Construct \/ \E p \in Procs : CallHasCapacity(p)

SpecCap == Init /\ [][NextCap]_vars

\* C23: hasCapacity(name) is true for every name on PostgreSQL and MongoDB;
\* on MariaDB and MSSQL it is true exactly for list, include, select and
\* limit, and false for every other name, query among them.
CapacityTable ==
  \A p \in Procs :
    (proc[p].pc = "done" /\ proc[p].op = "hasCapacity") =>
      proc[p].res = JBool(\/ adapter \in {"postgresql", "mongodb"}
                          \/ proc[p].name \in {"list", "include", "select", "limit"})

WitnessCapacityTable ==
  /\ adapter = "mssql"
  /\ proc["p1"].pc = "done" /\ proc["p1"].op = "hasCapacity"
  /\ proc["p1"].name = "query" /\ proc["p1"].res = JBool(FALSE)
  /\ proc["p2"].pc = "done" /\ proc["p2"].op = "hasCapacity"
  /\ proc["p2"].name = "limit" /\ proc["p2"].res = JBool(TRUE)

(***************************************************************************)
(* SpecNames: one caller storing, removing and listing attachments, no     *)
(* backend call fails.                                                     *)
(***************************************************************************)
AttachmentsOf(id) == SelectSeq(attachments, LAMBDA r : r.id = id)

\* The object name -> {} as the sequence of its keys, in the order of
\* NameOrder (an object does not depend on the order its keys were set in).
NameOrder == <<"n1", "n2">>
Mapping(names) == SelectSeq(NameOrder, LAMBDA n : n \in names)

\* allAttachments(id).  The SQL adapters fill the object from the rows of
\* the settled statement.  MongoDB's find() returns a cursor without
\* talking to the backend, and the callback returns the object right after
\* starting cursor.forEach, which fills it as the documents arrive: seen is
\* the set of names set by the time the caller looks, and a failure of the
\* iteration reaches nobody.
allAttachments(a, o, rows, seen) ==
  IF a = "mongodb"
  THEN Listed(FALSE, rows, Mapping(seen))
  ELSE LET q == executeQuery(a, o, rows)
       IN IF q.rejected THEN Listed(TRUE, <<>>, <<>>)
          ELSE LET found == IF q.value.null THEN <<>> ELSE q.value.rows
               IN Listed(FALSE, found, Mapping({found[i].name : i \in DOMAIN found}))

\* storage.allAttachments(id) is invoked.
CallAllAttachments(p) ==
  /\ inst = "constructed"
  /\ ~InFlight(p)
  /\ \E id \in Ids :
       proc' = [proc EXCEPT ![p] =
         [Idle EXCEPT !.pc = IF pool THEN FirstPc("allAttachments") ELSE "await",
                      !.op = "allAttachments", !.id = id]]
  /\ UNCHANGED <<adapter, timestamps, options, inst, error, bootVars, documents, stamps, reference,
                 attachments, attached, wrap>>

\* The statement of allAttachments and what the call settles to.
AllAttachments(p, B) ==
  /\ proc[p].pc = "names"
  /\ \E o \in OutcomesOf(readCalls(adapter), B),
        rows \in AllOrders(AttachmentsOf(proc[p].id)) :
       /\ o.work => tables
       /\ \E seen \in SUBSET {rows[i].name : i \in DOMAIN rows} :
            /\ (adapter # "mongodb" \/ ~o.work) => seen = {}
            /\ LET r == allAttachments(adapter, o, rows, seen)
               IN proc' = [proc EXCEPT ![p] =
                    [Done(p, IF r.rejected THEN "rejected" ELSE "resolved",
                          IF r.rejected THEN JStr("backend") ELSE JNull)
                       EXCEPT !.list = r.list]]
  /\ UNCHANGED <<adapter, timestamps, options, inst, error, bootVars, documents, stamps, reference,
                 attachments, attached, wrap>>

NextNames ==
  \/ Construct
  \/ Bootstrap({TRUE})
  \/ CallAttachment("p1") \/ CallAllAttachments("p1")
  \/ Await("p1") \/ Attachment("p1", {TRUE}) \/ AllAttachments("p1", {TRUE})

SpecNames == Init /\ [][NextNames]_vars

\* C24: allAttachments(i) resolves to the mapping whose keys are the names n
\* of the attachments (i, n) stored, each with an empty object; to the empty
\* mapping when none is stored under i.  (One caller, no backend failure.)
AllAttachmentsNames ==
  \A p \in Procs :
    (proc[p].pc = "done" /\ proc[p].op = "allAttachments") =>
      /\ proc[p].status = "resolved"
      /\ proc[p].list =
           Mapping({n \in Names : \E k \in DOMAIN attachments :
                                    attachments[k].id = proc[p].id /\ attachments[k].name = n})

(***************************************************************************)
(* SpecMixed: one caller working on documents and on attachments, no       *)
(* backend call fails.                                                     *)
(***************************************************************************)
NextMixed ==
  \/ Construct
  \/ Bootstrap({TRUE})
  \/ CallPut("p1", {JObj("x", 1)}) \/ Call("p1", {"remove"}) \/ CallAttachment("p1")
  \/ Await("p1") \/ Read("p1", {TRUE}) \/ Write("p1", {TRUE}) \/ Attachment("p1", {TRUE})

SpecMixed == Init /\ [][NextMixed]_vars

\* C25: remove(i) changes only the documents: the attachments stored are the
\* same before and after it, and putAttachment and removeAttachment never
\* change a document.  The stored attachments change only in the statement
\* of a putAttachment or a removeAttachment, the stored documents only in
\* the write of a put or a remove.
DocumentsAndAttachmentsApart ==
  [][/\ \A p \in Procs :
          (proc[p].op = "remove" /\ proc[p].pc # "done" /\ proc'[p].pc = "done") =>
            attachments' = attachments
     /\ \A p \in Procs :
          (proc[p].op \in AttachmentOps /\ proc[p].pc # "done" /\ proc'[p].pc = "done") =>
            documents' = documents
     /\ attachments' # attachments =>
          \E p \in Procs : /\ proc[p].pc = "attachment"
                           /\ proc[p].op \in {"putAttachment", "removeAttachment"}
     /\ documents' # documents =>
          \E p \in Procs : proc[p].pc = "write" /\ proc[p].op \in {"put", "remove"}]_vars

\* The document of id a has been removed and an attachment stored under a
\* is still there.
WitnessRemovedWithAttachment ==
  /\ proc["p1"].pc = "done" /\ proc["p1"].op = "remove" /\ proc["p1"].id = "a"
  /\ proc["p1"].status = "resolved"
  /\ reference["a"] = Absent /\ Matching("a") = <<>>
  /\ \E k \in DOMAIN attachments : attachments[k].id = "a"

(***************************************************************************)
(* SpecStamp: instances built with and without options.timestamps, one     *)
(* caller putting and removing documents, no backend call fails.           *)
(***************************************************************************)
TimestampsIn == {Undefined, JBool(TRUE), JBool(FALSE)}

NextStamp ==
  \/ Constructor(TimestampsIn)
  \/ Bootstrap({TRUE})
  \/ CallPut("p1", ObjectValues) \/ Call("p1", {"remove"})
  \/ Await("p1") \/ Read("p1", {TRUE}) \/ Write("p1", {TRUE})

SpecStamp == Init /\ [][NextStamp]_vars

\* A put's write is applied in this step.
PutApplied(p) ==
  /\ proc[p].pc = "write" /\ proc[p].op = "put"
  /\ proc'[p].pc = "done" /\ proc'[p].status = "resolved"

\* C26: with timestamps enabled (unless options.timestamps === false) the
\* insert of put sets createdAt of the new row to the server's time, the
\* update of put sets updatedAt of the rows it writes to the server's time
\* and leaves their createdAt as it was; with timestamps disabled the rows
\* put writes have neither field.  No row other than those put writes
\* changes its timestamps.
TimestampsOfPut ==
  [][\A p \in Procs :
       PutApplied(p) =>
         IF putPath(proc[p].doc) = "insert"
         THEN /\ Len(stamps') = Len(stamps) + 1
              /\ \A j \in DOMAIN stamps : stamps'[j] = stamps[j]
              /\ LET s == stamps'[Len(stamps')]
                 IN IF timestamps THEN s.createdAt = "insert" /\ s.updatedAt # "update"
                    ELSE s = NoStamps
         ELSE /\ Len(stamps') = Len(stamps)
              /\ \A j \in DOMAIN stamps :
                   IF documents[j].id = proc[p].id /\ documents'[j].value = cell(adapter, proc[p].val)
                   THEN IF timestamps
                        THEN /\ stamps'[j].updatedAt = "update"
                             /\ stamps'[j].createdAt = stamps[j].createdAt
                        ELSE stamps'[j] = NoStamps
                   ELSE stamps'[j] = stamps[j]]_vars

(***************************************************************************)
(* SpecAll: one caller invoking the seven operations one after the other,  *)
(* no backend call fails.  reference and attached are the reference model: *)
(* the map from id to value and the map from (id, name) to blob that the   *)
(* executed writes leave.                                                  *)
(***************************************************************************)
NextAll ==
  \/ Construct
  \/ Bootstrap({TRUE})
  \/ CallPut("p1", {JObj("x", 1)}) \/ Call("p1", {"get", "remove"})
  \/ CallAttachment("p1") \/ CallAllAttachments("p1")
  \/ Await("p1") \/ Read("p1", {TRUE}) \/ Write("p1", {TRUE})
  \/ Attachment("p1", {TRUE}) \/ AllAttachments("p1", {TRUE})

SpecAll == Init /\ [][NextAll]_vars

\* What the reference model answers to the call p made.
ReferenceAnswer(p) ==
  LET id == proc[p].id
      name == proc[p].name
  IN CASE proc[p].op = "get" ->
            Listed(FALSE, <<>>, <<>>) @@
              [res |-> IF reference[id] = Absent THEN JNull ELSE reference[id], blob |-> NoBlob]
       [] proc[p].op \in {"put", "remove", "removeAttachment"} ->
            Listed(FALSE, <<>>, <<>>) @@ [res |-> JStr(id), blob |-> NoBlob]
       [] proc[p].op = "putAttachment" ->
            Listed(FALSE, <<>>, <<>>) @@ [res |-> JNull, blob |-> NoBlob]
       [] proc[p].op = "getAttachment" ->
            IF attached[id, name] = NoBlob
            THEN Listed(TRUE, <<>>, <<>>) @@
                   [res |-> jIOError("Cannot find attachment: " \o id, NotFoundCode),
                    blob |-> NoBlob]
            ELSE Listed(FALSE, <<>>, <<>>) @@ [res |-> JNull, blob |-> attached[id, name]]
       [] OTHER ->
            Listed(FALSE, <<>>, Mapping({n \in Names : attached[id, n] # NoBlob})) @@
              [res |-> JNull, blob |-> NoBlob]

\* C27: in a sequence of get, put, remove, putAttachment, getAttachment,
\* removeAttachment and allAttachments calls that do not overlap and meet no
\* failure, every call on every adapter settles as the reference model does
\* and with the reference model's result.
AgreesWithReference ==
  \A p \in Procs :
    proc[p].pc = "done" =>
      LET r == ReferenceAnswer(p)
      IN /\ proc[p].status = (IF r.rejected THEN "rejected" ELSE "resolved")
         /\ proc[p].res = r.res
         /\ proc[p].blob = r.blob
         /\ proc[p].list = r.list

(***************************************************************************)
(* SpecFail: one caller writing documents and attachments, the backend     *)
(* calls of a write may fail.                                              *)
(***************************************************************************)
\* The calls a write issues on its connection, in order: MongoDB calls the
\* collection's method, MariaDB runs the statement under safeQuery,
\* PostgreSQL and MSSQL under safeTransaction.
writeTrace(a, o) ==
  CASE a = "mongodb" -> <<"work">>
    [] a = "mariadb" -> IF ~o.acquire THEN <<>> ELSE safeQuery(a, o, <<>>).calls
    [] a = "postgresql" -> IF ~o.acquire THEN <<>> ELSE safeTransaction(a, o).calls
    [] OTHER -> safeTransaction(a, o).calls

NextFail ==
  \/ Construct
  \/ Bootstrap({TRUE})
  \/ CallPut("p1", {JObj("x", 1)}) \/ Call("p1", {"remove"}) \/ CallAttachment("p1")
  \/ Await("p1") \/ Read("p1", {TRUE}) \/ Write("p1", BOOLEAN) \/ Attachment("p1", BOOLEAN)

SpecFail == Init /\ [][NextFail]_vars

\* The write of a mutating operation of p runs in this step.
WriteStep(p) ==
  /\ \/ proc[p].pc = "write"
     \/ proc[p].pc = "attachment" /\ proc[p].op \in {"putAttachment", "removeAttachment"}
  /\ proc'[p].pc = "done"

\* begin precedes the statement, and commit or rollback follows it.
Transactional(calls) ==
  Count(calls, "work") > 0 =>
    /\ Count(calls, "begin") > 0 /\ Index(calls, "begin") < Index(calls, "work")
    /\ \/ Count(calls, "commit") > 0 /\ Index(calls, "work") < Index(calls, "commit")
       \/ Count(calls, "rollback") > 0 /\ Index(calls, "work") < Index(calls, "rollback")

\* A write that rejects leaves the documents and the attachments as they
\* were.
FailedWriteChangesNothing ==
  \A p \in Procs :
    (WriteStep(p) /\ proc'[p].status = "rejected") =>
      documents' = documents /\ attachments' = attachments

\* C28: every mutating operation (put's insert and update, remove,
\* putAttachment, removeAttachment) of every adapter runs its statement
\* between begin and commit or rollback, whichever of its backend calls
\* fail, and a write that fails leaves the stored documents and attachments
\* as they were.
WritesAreTransactional ==
  [][/\ \A p \in Procs :
          WriteStep(p) =>
            \A o \in OutcomesOf(writeCalls(adapter), BOOLEAN) :
              Transactional(writeTrace(adapter, o))
     /\ FailedWriteChangesNothing]_vars

\* C29: when the creation of the tables fails during bootstrap (the tables
\* do not exist afterwards) the bootstrap is aborted: the instance does not
\* become Ready, the pool is not published and the bootstrap promise is not
\* fulfilled.  So a Ready instance, a published pool and a fulfilled promise
\* all imply that the tables exist.
TableFailureAborts ==
  (bootPc = "ready" \/ pool \/ dbPromise = "fulfilled") => tables

(***************************************************************************)
(* SpecIndex: two callers invoking get and remove from construction on;    *)
(* the index-creation statements of the bootstrap may fail, no other       *)
(* backend call does.                                                      *)
(***************************************************************************)
NextIndex ==
  \/ Construct
  \/ ConnectAdmin({TRUE}) \/ CreateDatabase({TRUE}) \/ CloseAdmin({TRUE})
  \/ ConnectPool({TRUE}) \/ CreateTables({TRUE})
  \/ CreateIndexesOn(OutcomesOf({"work"}, BOOLEAN))
  \/ Publish
  \/ Operate(Procs, {"get", "remove"}, {TRUE})

SpecIndex == Init /\ [][NextIndex]_vars

\* C30: a failure of an index-creation statement during bootstrap is
\* swallowed: the bootstrap does not fail, the bootstrap promise is not
\* rejected, and every data operation, also one invoked while the bootstrap
\* is in flight, resolves.
IndexFailureSwallowed ==
  /\ bootPc # "failed"
  /\ dbPromise # "rejected"
  /\ \A p \in Procs : proc[p].pc = "done" => proc[p].status = "resolved"

(***************************************************************************)
(* SpecConn: the wrapper runs of SpecWrap, and the table-creation step of  *)
(* the MariaDB adapter as src/@clearroad/storages/mariadb/index.ts has it: *)
(* one pooled connection handed to safeTransaction, then to safeQuery,     *)
(* then to safeTransaction again.                                          *)
(***************************************************************************)
\* What the lookup of the attachments index may return.
IndexRows == {<<>>, <<Row("compound", "")>>}

\* The calls initTables' callback issues on its connection: the CREATE
\* TABLE transaction; when that did not reject, the index lookup under
\* safeQuery; when the lookup returned no row, the ALTER TABLE transaction.
initTablesCalls(o1, o2, o3, rows) ==
  LET t1 == safeTransactionMariaDB(o1)
      q == safeQueryMariaDB(o2, rows)
      t2 == safeTransactionMariaDB(o3)
  IN IF t1.rejected THEN [calls |-> t1.calls, rejected |-> TRUE]
     ELSE IF ~q.value.null /\ Len(q.value.rows) = 0
     THEN [calls |-> t1.calls \o q.calls \o t2.calls, rejected |-> t2.rejected]
     ELSE [calls |-> t1.calls \o q.calls, rejected |-> FALSE]

RunInitTables(B) ==
  /\ wrap.acquired < MaxRuns
  /\ adapter = "mariadb"
  /\ \E o1 \in Outcomes(B), o2 \in OutcomesOf({"work"}, B), o3 \in Outcomes(B),
        rows \in IndexRows :
       /\ o1.acquire /\ o3.acquire
       /\ LET r == initTablesCalls(o1, o2, o3, rows)
          IN wrap' = [acquired |-> wrap.acquired + 1,
                      released |-> wrap.released + Count(r.calls, "release"),
                      run |-> [kind |-> "initTables", o |-> o1, read |-> rows,
                               calls |-> r.calls, rejected |-> r.rejected,
                               committed |-> FALSE, value |-> NullResult]]
  /\ UNCHANGED <<adapter, timestamps, instVars>>

NextConn == RunSafeTransaction(BOOLEAN) \/ RunSafeQuery(BOOLEAN) \/ RunInitTables(BOOLEAN)

SpecConn == InitWrap /\ [][NextConn]_vars

\* C31: no statement (query, begin, commit, rollback) is issued on a
\* connection after it has been released: in the calls of every run on a
\* connection, of a data operation or of the bootstrap, a release is the
\* last call.
NoCallAfterRelease ==
  \A i \in DOMAIN wrap.run.calls :
    wrap.run.calls[i] = "release" => i = Len(wrap.run.calls)

\* The phase of the instance: Constructed while nothing of the bootstrap has
\* run, Ready once its last callback has run, Bootstrapping in between
\* (a failed bootstrap stays there).
Phase ==
  CASE bootPc = "none" -> 0
    [] bootPc = "ready" -> 2
    [] OTHER -> 1

\* C32: the instance moves only forward through Constructed, Bootstrapping,
\* Ready; the cached pool/db handle is set only when the last bootstrap step
\* has finished, and once set it is never cleared, so that an operation
\* started on a set handle starts on a Ready instance.
ForwardOnly ==
  [][/\ Phase' >= Phase
     /\ (pool' => bootPc' = "ready")
     /\ (pool => pool')]_vars

(***************************************************************************)
(* SpecParse: parseQuery of the PostgreSQL and MongoDB adapters applied to *)
(* query trees, in and outside the grammar.                                *)
(***************************************************************************)
ParseKeys == {"x", "modification_date"}
ParseOperators == SqlOperators \cup {"", "~"}
GroupOperators == {"AND", "OR", "NOT", "XOR"}
ParsePredicates ==
  {SimpleQuery(key, op, 1) : key \in ParseKeys \cup {""}, op \in ParseOperators}
ParseGroups ==
  {ComplexQuery(op, key, <<c, d>>) :
     op \in GroupOperators, key \in ParseKeys \cup {""},
     c \in {SimpleQuery(k, o, 1) : k \in {"", "x"}, o \in {"", "<="}},
     d \in {SimpleQuery(k, o, 2) : k \in {"", "modification_date"}, o \in {"!=", "~"}}}
ParseNested ==
  {ComplexQuery("AND", "", <<ComplexQuery("OR", "x", <<c, d>>), e>>) :
     c \in {SimpleQuery("", "", 1)}, d \in {SimpleQuery("", o, 2) : o \in {">", ">="}},
     e \in {SimpleQuery("modification_date", o, 1) : o \in {"<", "="}}}
ParseTrees == ParsePredicates \cup ParseGroups \cup ParseNested

\* parseQuery(parsed) of the adapter, called without a key.  Neither
\* translation has a throw statement.
parseQuery(a, parsed) ==
  [threw |-> FALSE,
   out |-> IF a = "mongodb" THEN parseQueryMongoDB(parsed, "")
           ELSE parseQueryPostgreSQL(parsed, "")]

ParseQuery(p) ==
  /\ ~InFlight(p)
  /\ \E parsed \in ParseTrees :
       proc' = [proc EXCEPT ![p] =
         [Idle EXCEPT !.pc = "done", !.op = "parseQuery", !.status = "resolved",
                      !.opts = [NoQueryOptions EXCEPT !.query = parsed],
                      !.res = parseQuery(adapter, parsed)]]
  /\ UNCHANGED <<adapter, timestamps, options, inst, error, bootVars, documents, stamps, reference,
                 attachments, attached, wrap>>

InitParse ==
  /\ adapter \in {"postgresql", "mongodb"}
  /\ wrap = [acquired |-> 0, released |-> 0, run |-> NoRun]
  /\ InstanceInit

NextParse == ParseQuery("p1")

SpecParse == InitParse /\ [][NextParse]_vars

Parsed(p) == proc[p].pc = "done" /\ proc[p].op = "parseQuery"

\* The tree holds only operators of the grammar.
RECURSIVE InGrammar(_)
InGrammar(query) ==
  IF query.type = "complex"
  THEN /\ query.operator \in {"AND", "OR", "NOT"}
       /\ \A i \in DOMAIN query.query_list : InGrammar(query.query_list[i])
  ELSE query.operator \in SqlOperators \cup {""}

\* The reference filter of a tree of predicates and AND/OR groups: the
\* operator table of the MongoDB dialect, and the translation by cases.  The
\* field a key names is taken as each dialect has it.
MongoOperators ==
  [op \in SqlOperators |->
     CASE op = "=" -> "$eq" [] op = "!=" -> "$ne" [] op = "<" -> "$lt"
       [] op = "<=" -> "$lte" [] op = ">" -> "$gt" [] OTHER -> "$gte"]

RECURSIVE ReferenceFilter(_, _, _)
ReferenceFilter(a, query, key) ==
  IF query.type = "complex"
  THEN LET children == [i \in DOMAIN query.query_list |->
                          ReferenceFilter(a, query.query_list[i], query.key)]
       IN IF a = "mongodb"
          THEN ListFilter(IF query.operator = "AND" THEN "$and" ELSE "$or", children)
          ELSE "(" \o Join(children, " " \o query.operator \o " ") \o ")"
  ELSE LET k == IF query.key # "" THEN query.key ELSE key
           op == IF query.operator = "" THEN "=" ELSE query.operator
       IN IF a = "mongodb"
          THEN FieldFilter(keyToDBField(k), MongoOperators[op], valueToDBValue(k, query.value))
          ELSE "value ->> '" \o k \o "' " \o op \o " '" \o ToString(query.value) \o "'"

\* C33: parseQuery translates every tree of predicates and AND/OR groups to
\* the reference filter: = (also without operator), !=, <, <=, >, >= become
\* $eq, $ne, $lt, $lte, $gt, $gte on MongoDB and stay verbatim on
\* PostgreSQL, a predicate without key takes the key of its group, and a
\* group joins the translations of its children in their order.
ParseQueryIsReference ==
  \A p \in Procs :
    (Parsed(p) /\ InGrammar(proc[p].opts.query) /\ ~HasNot(proc[p].opts.query)) =>
      /\ ~proc[p].res.threw
      /\ proc[p].res.out = ReferenceFilter(adapter, proc[p].opts.query, "")

\* Witness of C33: on MongoDB, a nested tree with a keyed OR group of two
\* predicates without key, one of them with >=, has been translated.
WitnessParsedNested ==
  /\ adapter = "mongodb"
  /\ Parsed("p1")
  /\ proc["p1"].opts.query \in ParseNested
  /\ proc["p1"].opts.query.query_list[1].query_list[2].operator = ">="
  /\ proc["p1"].res.out.filters[1].filters[2] =
       FieldFilter("doc.x", "$gte", [t |-> "number", n |-> 2])

\* Witness of C33 on PostgreSQL: a keyed group with <= has been translated.
WitnessParsedText ==
  /\ adapter = "postgresql"
  /\ Parsed("p1")
  /\ proc["p1"].res.out = "(value ->> 'x' <= '1' OR value ->> 'x' != '2')"

\* The translation compares the payload field key, not a column of the row.
OnPayload(a, out, key) ==
  IF a = "mongodb" THEN out.field = "doc." \o key /\ out.value.t = "number"
  ELSE \E op \in SqlOperators, v \in Operands :
         out = "value ->> '" \o key \o "' " \o op \o " '" \o ToString(v) \o "'"

\* C34: on PostgreSQL and on MongoDB a predicate on the key modification_date
\* is translated to a comparison of the server-maintained timestamp, not of
\* a payload field, with its value as a native timestamp; a predicate on any
\* other key compares a field of the payload.
ModificationDateIsTimestamp ==
  \A p \in Procs :
    LET query == proc[p].opts.query
    IN (Parsed(p) /\ query.type = "simple" /\ query.key # "" /\ InGrammar(query)) =>
         IF query.key = "modification_date"
         THEN /\ ~OnPayload(adapter, proc[p].res.out, query.key)
              /\ adapter = "mongodb" =>
                   /\ proc[p].res.out.field \in {"createdAt", "updatedAt"}
                   /\ proc[p].res.out.value.t = "date"
         ELSE OnPayload(adapter, proc[p].res.out, query.key)

\* C35: translating a tree with an operator outside the grammar fails with
\* an error and produces no filter.
UnknownOperatorFails ==
  \A p \in Procs :
    (Parsed(p) /\ ~InGrammar(proc[p].opts.query)) => proc[p].res.threw

(***************************************************************************)
(* SpecPool: data operations of MariaDB and PostgreSQL on a Ready instance *)
(* whose pool holds PoolSize connections.  An operation takes a connection *)
(* of the pool, waiting while none is free, and hands it to safeQuery or   *)
(* safeTransaction; any backend call may fail.  MaxCalls bounds the        *)
(* operations that are handed a connection.                                *)
(***************************************************************************)
PoolSize == 1
MaxCalls == 3

InUse == wrap.acquired - wrap.released

\* storage.get / storage.remove is invoked: client() / connection() asks the
\* pool for a connection.
CallPooled(p) ==
  /\ ~InFlight(p)
  /\ wrap.acquired + Cardinality({q \in Procs : proc[q].pc = "connect"}) < MaxCalls
  /\ \E op \in {"get", "remove"} :
       proc' = [proc EXCEPT ![p] = [Idle EXCEPT !.pc = "connect", !.op = op]]
  /\ UNCHANGED <<adapter, timestamps, options, inst, error, bootVars, documents, stamps, reference,
                 attachments, attached, wrap>>

\* pool.connect() / pool.getConnection() resolves with a free connection.
Connect(p) ==
  /\ proc[p].pc = "connect"
  /\ InUse < PoolSize
  /\ proc' = [proc EXCEPT ![p].pc = "run"]
  /\ wrap' = [wrap EXCEPT !.acquired = wrap.acquired + 1]
  /\ UNCHANGED <<adapter, timestamps, options, inst, error, bootVars, documents, stamps, reference,
                 attachments, attached>>

\* No connection is free: the MariaDB pool rejects getConnection() once its
\* acquire timeout has passed; the PostgreSQL pool waits without limit.
ConnectTimeout(p) ==
  /\ proc[p].pc = "connect"
  /\ adapter = "mariadb"
  /\ InUse >= PoolSize
  /\ proc' = [proc EXCEPT ![p] = Done(p, "rejected", JStr("backend"))]
  /\ UNCHANGED <<adapter, timestamps, options, inst, error, bootVars, documents, stamps, reference,
                 attachments, attached, wrap>>

\* The wrapper run of the operation on its connection: safeQuery for a read
\* and for every statement of MariaDB, safeTransaction for a PostgreSQL
\* write.
pooledRun(a, op, o) ==
  IF op = "get" \/ a = "mariadb" THEN safeQuery(a, o, <<>>) ELSE safeTransaction(a, o)

RunPooled(p, B) ==
  /\ proc[p].pc = "run"
  /\ \E o \in Outcomes(B) :
       /\ o.acquire
       /\ LET r == pooledRun(adapter, proc[p].op, o)
          IN /\ wrap' = [wrap EXCEPT !.released = wrap.released + Count(r.calls, "release")]
             /\ proc' = [proc EXCEPT ![p] =
                  Done(p, IF r.rejected THEN "rejected" ELSE "resolved", JNull)]
  /\ UNCHANGED <<adapter, timestamps, options, inst, error, bootVars, documents, stamps, reference,
                 attachments, attached>>

InitPool ==
  /\ adapter \in {"mariadb", "postgresql"}
  /\ wrap = [acquired |-> 0, released |-> 0, run |-> NoRun]
  /\ InstanceInit

NextPool ==
  \E p \in Procs :
    CallPooled(p) \/ Connect(p) \/ ConnectTimeout(p) \/ RunPooled(p, BOOLEAN)

\* Every backend call settles; the pool serves its waiters in turn and its
\* timer fires.
FairPool ==
  \A p \in Procs :
    /\ SF_vars(Connect(p))
    /\ WF_vars(ConnectTimeout(p))
    /\ WF_vars(RunPooled(p, BOOLEAN))

SpecPool == InitPool /\ [][NextPool]_vars /\ FairPool

\* C36: every data operation that was invoked eventually settles, whatever
\* backend calls of earlier operations failed, and failed operations take
\* nothing from the pool for good: whenever no operation holds a connection
\* every connection of the pool is free.
PoolIsNeverDrained ==
  /\ \A p \in Procs : (proc[p].pc = "connect") ~> (proc[p].pc = "done")
  /\ [](( \A p \in Procs : proc[p].pc # "run") => InUse = 0)

\* C37: put inserts a row only when no row with its id is stored, also when
\* its preliminary read failed at the backend.  (One caller; stated for the
\* ids whose stored values are all truthy, where a read that succeeds sees
\* the row.)
InsertOnlyWhenAbsent ==
  [][\A p \in Procs :
       (/\ proc[p].pc = "write" /\ proc[p].op = "put"
        /\ Len(documents') > Len(documents)
        /\ \A k \in MatchIdx(proc[p].id) : Truthy(resultAsJson(adapter, documents[k])))
         => RowsOf(proc[p].id) = 0]_vars

\* C38: a stored document whose value is falsy counts as present: a put on
\* an id that has a row, whatever its value, adds no row, and the get that
\* follows returns the value put last.  (One caller, no backend failure.)
FalsyIsPresent ==
  [][\A p \in Procs :
       /\ (proc[p].pc = "write" /\ proc[p].op = "put" /\ RowsOf(proc[p].id) > 0)
            => Len(documents') = Len(documents)
       /\ (proc[p].pc = "read" /\ proc[p].op = "get" /\ proc'[p].pc = "done"
           /\ reference[proc[p].id] # Absent)
            => proc'[p].res = reference[proc[p].id]]_vars

\* C39: once removeAttachment(i, n) has resolved no attachment (i, n) is
\* stored, however many putAttachment(i, n, .) were executed before, and the
\* attachments of another id or another name are as they were.  (One caller,
\* no backend failure.)
RemoveAttachmentRemovesAll ==
  [][\A p \in Procs :
       (/\ proc[p].pc = "attachment" /\ proc[p].op = "removeAttachment"
        /\ proc'[p].status = "resolved")
         => /\ MatchingAttachments(proc[p].id, proc[p].name)' = <<>>
            /\ SelectSeq(attachments',
                         LAMBDA r : ~(r.id = proc[p].id /\ r.name = proc[p].name))
                 = SelectSeq(attachments,
                             LAMBDA r : ~(r.id = proc[p].id /\ r.name = proc[p].name))]_vars

(***************************************************************************)
(* SpecTwin: a second instance is constructed from the options object of   *)
(* the first while the bootstrap of the first is in flight; backend calls  *)
(* may fail.  proc[p] holds the second instance: what its constructor did  *)
(* (status), the database its initDb read from the options (res) and where *)
(* its bootstrap is (pc).                                                  *)
(***************************************************************************)
\* new Storage(options) on the options object as the first instance's
\* bootstrap has it now: the checks of the constructor, then the synchronous
\* part of initDb, which reads options.database and replaces it.
ConstructSecond(p) ==
  /\ inst = "constructed"
  /\ dbPromise = "pending"
  /\ proc[p].pc = "idle"
  /\ IF requireOptions(adapter, options) # ""
     THEN /\ proc' = [proc EXCEPT ![p] =
                [Idle EXCEPT !.pc = "done", !.op = "new", !.status = "threw",
                             !.res = JStr(requireOptions(adapter, options))]]
          /\ UNCHANGED options
     ELSE /\ proc' = [proc EXCEPT ![p] =
                [Idle EXCEPT !.pc = "admin", !.op = "new", !.status = "constructed",
                             !.res = options.database]]
          /\ options' = [options EXCEPT !.database = adminDatabase(adapter, options.database)]
  /\ UNCHANGED <<adapter, timestamps, inst, error, bootVars, documents, stamps, reference,
                 attachments, attached, wrap>>

\* The administrative phase of the second instance's bootstrap settles: its
\* last callback puts the database it read back into the options; when the
\* queue rejected before, nothing does.
SecondAdmin(p, B) ==
  /\ proc[p].pc = "admin"
  /\ \E ok \in B :
       /\ ok \/ adapter # "mssql"
       /\ options' = IF ok THEN [options EXCEPT !.database = proc[p].res] ELSE options
       /\ proc' = [proc EXCEPT ![p].pc = IF ok THEN "tables" ELSE "failed"]
  /\ UNCHANGED <<adapter, timestamps, inst, error, bootVars, documents, stamps, reference,
                 attachments, attached, wrap>>

NextTwin ==
  \/ Construct
  \/ Bootstrap(BOOLEAN)
  \/ ConstructSecond("p2")
  \/ SecondAdmin("p2", BOOLEAN)

SpecTwin == Init /\ [][NextTwin]_vars

\* C40: a second instance constructed from the same options object while
\* the first bootstrap is in flight is constructed, and its bootstrap is for
\* the database the caller named, the one the first instance read.
SecondInstanceSameDatabase ==
  \A p \in Procs :
    proc[p].op = "new" => (proc[p].status = "constructed" /\ proc[p].res = database)

====
